---- MODULE Spec2Model ----
(***************************************************************************)
(* A model of the map generation pipeline of world-map-generator           *)
(* (src/app/utils/mapgen): mesh construction, terrain, climate, hydrology, *)
(* biome assignment and rasterization.                                     *)
(*                                                                         *)
(* Arrays are functions over 0..n-1, as in the source.  Real numbers are   *)
(* fixed-point integers in units of 1/ONE.                                 *)
(***************************************************************************)
EXTENDS Integers, Sequences, FiniteSets, TLC

VARIABLES
    pc,             \* the step of the pipeline that runs next
    flatPoints,     \* createMesh: the x,y coordinates handed to Delaunator
    delaunay,       \* the Delaunator result: [triangles, halfedges]
    mesh,           \* the VoronoiMesh built by createMesh (NoMesh before)
    config,         \* the MapConfig of the call
    noise,          \* the seeded noise, sampled where the pipeline reads it
    mountainDistance, \* calculateMountainDistance's result
    elevation_t,    \* generateElevation's result
    temperature_t,  \* generateTemperature's result
    windOrder,      \* calculateWindOrder's result
    moisture_t,     \* calculateMoisture's results
    rainfall_t,
    downslope_t,    \* calculateDownslope's result
    flow_t,         \* calculateFlowAccumulation's results
    riverPaths,
    biomes_t,       \* assignBiomes' result
    mapData,        \* the grids of the MapData being filled
    returned,       \* what the completed calls of generateMap returned
    loading,        \* MapGenerator: the loading flag
    timeouts        \* MapGenerator: the callbacks setTimeout holds

meshVars == <<flatPoints, delaunay, mesh>>

inputVars == <<config, noise>>

terrainVars == <<mountainDistance, elevation_t>>

climateVars == <<temperature_t, windOrder, moisture_t, rainfall_t>>

hydroVars == <<downslope_t, flow_t, riverPaths>>

outputVars == <<biomes_t, mapData>>

callVars == <<returned, loading, timeouts>>

vars == <<pc, meshVars, inputVars, terrainVars, climateVars, hydroVars,
          outputVars, callVars>>

(***************************************************************************)
(* Arrays and arithmetic                                                   *)
(***************************************************************************)

\* The index set of an array of the given length.
Idx(n) == 0 .. (n - 1)

\* The length of an array.
Size(a) == Cardinality(DOMAIN a)

\* A literal <<...>> as a 0-based array.
Arr(s) == [i \in Idx(Len(s)) |-> s[i + 1]]

\* The value of a variable that no step has written yet.
None == <<>>

Min2(a, b) == IF a <= b THEN a ELSE b

Max2(a, b) == IF a >= b THEN a ELSE b

\* Fixed point: the integer that stands for 1.0.
ONE == 1000

\* The fixed-point value of n/d.
Frac(n, d) == (n * ONE) \div d

\* The fixed-point product.
Mul(a, b) == (a * b) \div ONE

\* Math.max(lo, Math.min(hi, x)).
Clamp(lo, hi, x) == Max2(lo, Min2(hi, x))

SetMin(S) == CHOOSE x \in S : \A y \in S : x <= y

SetMax(S) == CHOOSE x \in S : \A y \in S : x >= y

(***************************************************************************)
(* The configuration (types.ts, MapConfig)                                 *)
(***************************************************************************)

\* The default configuration of the front end, on a map of 60 x 54 pixels.
\* biomeDensity is the ratio n/d; the other fractions are fixed point.
DefaultConfig ==
    [seed |-> 1, width |-> 60, height |-> 54,
     biomeDensity |-> [n |-> 4, d |-> 5], pointDeviation |-> Frac(45, 100),
     seaLevel |-> Frac(4, 10), mountainHeight |-> Frac(8, 10),
     windAngleDeg |-> 0, raininess |-> Frac(5, 10), rainShadow |-> Frac(7, 10),
     evaporation |-> Frac(5, 10), rivers |-> Frac(5, 10),
     riverMinFlow |-> Frac(2, 100), riverWidth |-> ONE,
     mountainFrequency |-> Frac(3, 10), jaggedness |-> Frac(6, 10)]

\* No stage of the pipeline has run.
StagesUnset ==
    /\ mountainDistance = None
    /\ elevation_t = None
    /\ temperature_t = None
    /\ windOrder = None
    /\ moisture_t = None
    /\ rainfall_t = None
    /\ downslope_t = None
    /\ flow_t = None
    /\ riverPaths = None
    /\ biomes_t = None
    /\ mapData = None

(***************************************************************************)
(* Mesh construction (mesh.ts)                                             *)
(***************************************************************************)

NoMesh == [numTriangles |-> 0]

\* calculateTriangleCenter: the mean of the three corners of triangle t.
\* The model's point coordinates are multiples of 3, so the division is exact.
calculateTriangleCenter(t, triangles, points) ==
    LET i  == t * 3
        p0 == triangles[i] * 2
        p1 == triangles[i + 1] * 2
        p2 == triangles[i + 2] * 2
    IN  [x |-> (points[p0] + points[p1] + points[p2]) \div 3,
         y |-> (points[p0 + 1] + points[p1 + 1] + points[p2 + 1]) \div 3]

\* The loop over the halfedges: whether halfedge e has an opposite.
MutHasOpposite(opposite) == opposite > 0

hasOpposite(opposite) == opposite >= 0

\* createMesh: neighbors[t][j] is the triangle across edge j of t, or -1;
\* is_boundary_t[t] is 1 when some edge of t has no opposite.
createMesh(points, dl, width, height) ==
    LET numTriangles == Size(dl.triangles) \div 3
        numHalfedges == Size(dl.halfedges)
        EdgesOf(t)   == {e \in Idx(numHalfedges) : e \div 3 = t}
    IN  [numPoints     |-> Size(points) \div 2,
         numTriangles  |-> numTriangles,
         numHalfedges  |-> numHalfedges,
         neighbors     |-> [t \in Idx(numTriangles) |->
                              [j \in 0 .. 2 |->
                                 IF hasOpposite(dl.halfedges[3 * t + j])
                                 THEN dl.halfedges[3 * t + j] \div 3
                                 ELSE -1]],
         is_boundary_t |-> [t \in Idx(numTriangles) |->
                              IF \E e \in EdgesOf(t) : ~hasOpposite(dl.halfedges[e])
                              THEN 1 ELSE 0],
         centers       |-> [t \in Idx(numTriangles) |->
                              calculateTriangleCenter(t, dl.triangles, points)],
         width         |-> width,
         height        |-> height]

\* The members of neighbors[t] that are triangles.
NeighborSet(m, t) == {m.neighbors[t][j] : j \in 0 .. 2} \ {-1}

(***************************************************************************)
(* SpecMesh: createMesh on every halfedge table that is a valid pairing.   *)
(* Delaunator pairs halfedges two at a time (its link(a, b)); every table  *)
(* it can return is reached by a sequence of such links.                   *)
(***************************************************************************)

MaxTriangles == 3

\* Triangle t of the unpaired soup has corners 3t, 3t+1, 3t+2.
SoupTriangles(n) == [e \in Idx(3 * n) |-> e]

SoupPoints(n) == [k \in Idx(6 * n) |-> 3 * (k % 7)]

InitMesh ==
    \E n \in 1 .. MaxTriangles :
        /\ pc = "mesh"
        /\ flatPoints = SoupPoints(n)
        /\ delaunay = [triangles |-> SoupTriangles(n),
                       halfedges |-> [e \in Idx(3 * n) |-> -1]]
        /\ mesh = NoMesh
        /\ config = DefaultConfig
        /\ noise = None
        /\ returned = <<>> /\ loading = FALSE /\ timeouts = <<>>
        /\ StagesUnset

\* Delaunator's link(a, b): halfedges a and b, of two triangles, become
\* each other's opposite.
Link(a, b) ==
    /\ pc = "mesh"
    /\ a < b
    /\ a \div 3 # b \div 3
    /\ delaunay.halfedges[a] = -1
    /\ delaunay.halfedges[b] = -1
    /\ delaunay' = [delaunay EXCEPT !.halfedges[a] = b, !.halfedges[b] = a]
    /\ UNCHANGED <<pc, flatPoints, mesh, inputVars, callVars, terrainVars, climateVars,
                   hydroVars, outputVars>>

\* generateMap, step 1: const mesh = createMesh(pointsData, width, height).
CreateMesh ==
    /\ pc = "mesh"
    /\ mesh' = createMesh(flatPoints, delaunay, config.width, config.height)
    /\ pc' = "terrain"
    /\ UNCHANGED <<flatPoints, delaunay, inputVars, callVars, terrainVars, climateVars,
                   hydroVars, outputVars>>

NextMesh ==
    \/ \E a, b \in DOMAIN delaunay.halfedges : Link(a, b)
    \/ CreateMesh

SpecMesh == InitMesh /\ [][NextMesh]_vars

\* The halfedge table is a valid pairing.
ValidPairing ==
    \A e \in DOMAIN delaunay.halfedges :
        delaunay.halfedges[e] >= 0 => delaunay.halfedges[delaunay.halfedges[e]] = e

\* C8: in the mesh createMesh builds from a valid pairing, u is a neighbor of
\* t exactly when t is a neighbor of u, and is_boundary_t[t] is set exactly
\* when some slot of neighbors[t] is -1.
C8_MeshSymmetry ==
    (pc = "terrain" /\ ValidPairing) =>
        /\ \A t, u \in Idx(mesh.numTriangles) :
              u \in NeighborSet(mesh, t) <=> t \in NeighborSet(mesh, u)
        /\ \A t \in Idx(mesh.numTriangles) :
              mesh.is_boundary_t[t] = 1 <=> \E j \in 0 .. 2 : mesh.neighbors[t][j] = -1

\* A mesh with a paired edge, and with a triangle that has both a neighbor
\* and a boundary edge.
C8_Witness ==
    /\ pc = "terrain"
    /\ ValidPairing
    /\ \E t \in Idx(mesh.numTriangles) :
          /\ NeighborSet(mesh, t) # {}
          /\ mesh.is_boundary_t[t] = 1
    /\ \E t \in Idx(mesh.numTriangles) : mesh.is_boundary_t[t] = 0

(***************************************************************************)
(* Triangulations the pipeline runs on.  Each is the Delaunay              *)
(* triangulation of its points, in Delaunator's layout: triangles[e] is    *)
(* the point where halfedge e starts, halfedges[e] the opposite halfedge.  *)
(***************************************************************************)

\* 7 triangles on 30 x 27 pixels; triangles 2, 4, 5 and 6 are interior.
Mesh7 ==
    [width |-> 30, height |-> 27,
     points    |-> Arr(<<0, 0, 30, 0, 15, 27, 12, 6, 18, 9, 15, 15>>),
     triangles |-> Arr(<<0, 1, 3, 0, 5, 2, 0, 3, 5, 1, 2, 4, 1, 4, 3, 2, 5, 4,
                         3, 4, 5>>),
     halfedges |-> Arr(<<-1, 14, 6, 8, 15, -1, 2, 20, 3, -1, 17, 12, 11, 18, 1,
                         4, 19, 10, 13, 16, 7>>)]

\* 9 triangles on 60 x 54 pixels; triangles 5, 6 and 8 are on the boundary.
Mesh9 ==
    [width |-> 60, height |-> 54,
     points    |-> Arr(<<0, 0, 60, 0, 30, 54, 15, 12, 15, 6, 27, 27, 36, 3>>),
     triangles |-> Arr(<<3, 5, 2, 5, 6, 1, 3, 4, 6, 0, 6, 4, 5, 3, 6, 2, 5, 1,
                         1, 6, 0, 3, 0, 4, 2, 0, 3>>),
     halfedges |-> Arr(<<12, 15, 26, 14, 18, 16, 23, 10, 13, 19, 7, 22, 0, 8, 3,
                         1, 5, -1, 4, 9, -1, 25, 11, 6, -1, 21, 2>>)]

Triangulations == {Mesh7, Mesh9}

\* The mesh createMesh builds from a triangulation of the library.
MeshOf(g) ==
    createMesh(g.points, [triangles |-> g.triangles, halfedges |-> g.halfedges],
               g.width, g.height)

(***************************************************************************)
(* Terrain (terrain.ts)                                                    *)
(***************************************************************************)

\* What the seeded noise and the fields derived from it hold at one
\* triangle: continentMask[t], mountainDistance[t], noiseData.elevation,
\* noiseData.roughness and noiseData.waterNoise at the triangle's
\* noiseIndex, and the temperature and wind turbulence noise at its center.
SampleTable ==
    <<[continentMask |-> 0, mountainDistance |-> ONE, terrainNoise |-> 625,
       roughness |-> -800, waterNoise |-> 200, temperature |-> ONE,
       windturb |-> 0],
      [continentMask |-> 0, mountainDistance |-> ONE, terrainNoise |-> 0,
       roughness |-> 500, waterNoise |-> 500, temperature |-> -ONE,
       windturb |-> 500],
      [continentMask |-> 0, mountainDistance |-> ONE, terrainNoise |-> 600,
       roughness |-> 500, waterNoise |-> 500, temperature |-> 0,
       windturb |-> -500],
      [continentMask |-> 500, mountainDistance |-> 0, terrainNoise |-> 0,
       roughness |-> 0, waterNoise |-> 200, temperature |-> 500,
       windturb |-> 500],
      [continentMask |-> 800, mountainDistance |-> 500, terrainNoise |-> -400,
       roughness |-> 500, waterNoise |-> 700, temperature |-> -500,
       windturb |-> -ONE]>>

\* How many entries of the table the interior triangles draw from.
NumSamples == 4

Samples == {SampleTable[i] : i \in 1 .. Min2(NumSamples, Len(SampleTable))}

\* Boundary triangles: the mask is 0 there and the elevation noise unread.
BoundarySample ==
    [continentMask |-> 0, mountainDistance |-> ONE, terrainNoise |-> 0,
     roughness |-> 0, waterNoise |-> 500, temperature |-> 0, windturb |-> 0]

\* The noise fields a seed can give on mesh m.
NoiseFields(m) ==
    LET interior == {t \in Idx(m.numTriangles) : m.is_boundary_t[t] = 0}
    IN  {[t \in Idx(m.numTriangles) |->
            IF t \in interior THEN f[t] ELSE BoundarySample] :
         f \in [interior -> Samples]}

\* The elevation of an interior triangle before normalization.
rawElevation(s, cfg) ==
    LET mountainValue        == ONE - s.mountainDistance
        mountainContribution == Mul(Mul(mountainValue, mountainValue),
                                    cfg.mountainHeight)
        elevation == Mul(s.continentMask, Frac(6, 10))
                     + Mul(mountainContribution, Frac(5, 10))
                     + Mul(Mul(s.terrainNoise, s.roughness), Frac(3, 10))
    IN  IF s.waterNoise < Frac(3, 10)
        THEN Mul(elevation, s.waterNoise * 3)
        ELSE elevation

\* The second loop of generateElevation, which runs when range > 0.
Normalize(raw, interior, minElevation, range) ==
    [t \in DOMAIN raw |-> ((raw[t] - minElevation) * ONE) \div range]

\* generateElevation: boundary triangles get 0 and stay out of the min/max;
\* when the range is positive every triangle is mapped by (e - min) / range.
generateElevation(m, nz, cfg) ==
    LET interior == {t \in Idx(m.numTriangles) : m.is_boundary_t[t] = 0}
        raw == [t \in Idx(m.numTriangles) |->
                   IF t \in interior THEN rawElevation(nz[t], cfg) ELSE 0]
        minElevation == SetMin({raw[t] : t \in interior})
        maxElevation == SetMax({raw[t] : t \in interior})
    IN  IF interior # {} /\ maxElevation - minElevation > 0
        THEN Normalize(raw, interior, minElevation, maxElevation - minElevation)
        ELSE raw

(***************************************************************************)
(* Spec: generateMap from createMesh to assignBiomes, one action per call, *)
(* on the triangulations of the library and every noise field over them.   *)
(***************************************************************************)

SeaLevels == {Frac(1, 10), Frac(4, 10)}

\* The configurations of the calls: the defaults on the size of the
\* triangulation, at a low and at the default sea level.
Configs(g) ==
    {[DefaultConfig EXCEPT !.width = g.width, !.height = g.height,
                           !.seaLevel = s] : s \in SeaLevels}

Init ==
    \E g \in Triangulations :
        /\ pc = "mesh"
        /\ flatPoints = g.points
        /\ delaunay = [triangles |-> g.triangles, halfedges |-> g.halfedges]
        /\ mesh = NoMesh
        /\ config \in Configs(g)
        /\ noise \in NoiseFields(MeshOf(g))
        /\ returned = <<>> /\ loading = FALSE /\ timeouts = <<>>
        /\ StagesUnset

\* generateMap, step 2: const elevation_t = generateElevation(...).
GenerateElevation ==
    /\ pc = "terrain"
    /\ noise # None
    /\ elevation_t' = generateElevation(mesh, noise, config)
    /\ pc' = "temperature"
    /\ UNCHANGED <<meshVars, inputVars, callVars, mountainDistance, climateVars,
                   hydroVars, outputVars>>

\* The triangles of the mesh, once generateElevation has run on it.
Triangles == Idx(mesh.numTriangles)

\* The steps of generateMap that follow assignBiomes.
RasterSteps == {"raster", "rasterClimate", "rasterRivers", "rasterBiomes", "return"}

HasElevation ==
    pc \in {"temperature", "wind", "moisture", "downslope", "flow", "biomes"}
           \cup RasterSteps

\* C2: after generateElevation on a mesh with at least one triangle the
\* minimum of elevation_t over all triangles, boundary triangles included,
\* is 0 and the maximum is 1.
C2_ElevationNormalized ==
    (HasElevation /\ mesh.numTriangles >= 1) =>
        /\ SetMin({elevation_t[t] : t \in Triangles}) = 0
        /\ SetMax({elevation_t[t] : t \in Triangles}) = ONE

(***************************************************************************)
(* Climate (climate.ts)                                                    *)
(***************************************************************************)

\* Math.pow(x, 1.2) at x = 0, 0.1, ..., 1.
Pow12Table == <<0, 63, 145, 236, 333, 435, 542, 652, 765, 881, 1000>>

\* Math.pow(latitude, 1.2) for 0 <= latitude <= 1, between the table's points.
Pow12(x) ==
    LET step == ONE \div 10
        i    == Min2(x \div step, 9)
        lo   == Pow12Table[i + 1]
        hi   == Pow12Table[i + 2]
    IN  lo + ((hi - lo) * (x - i * step)) \div step

Abs(x) == IF x < 0 THEN -x ELSE x

\* The last statement of generateTemperature's loop.
MutClampTemperature(temp) == temp

clampTemperature(temp) == Max2(0, Min2(ONE, temp))

\* The temperature of one triangle with center y, elevation e and noise nv.
temperatureAt(y, e, nv, cfg) ==
    LET ny       == Frac(y, cfg.height)
        latitude == Abs(ny - Frac(5, 10)) * 2
        base     == ONE - Pow12(latitude)
        elevationAboveSea == Max2(0, e - cfg.seaLevel)
        cooled   == base - Mul(elevationAboveSea, Frac(6, 10))
        temp     == IF e < cfg.seaLevel
                    THEN Mul(cooled, Frac(8, 10)) + Frac(2, 10)
                    ELSE cooled
    IN  clampTemperature(temp + Mul(nv, Frac(5, 100)))

generateTemperature(m, e, nz, cfg) ==
    [t \in Idx(m.numTriangles) |->
        temperatureAt(m.centers[t].y, e[t], nz[t].temperature, cfg)]

\* Math.cos and Math.sin of the wind angle, which the configurations of
\* the model keep at 0 degrees.
Cos(deg) == CASE deg = 0 -> ONE

Sin(deg) == CASE deg = 0 -> 0

\* Array.prototype.sort with comparator key[a] - key[b] on 0 .. n-1: a stable
\* sort, so equal keys stay in index order.
SortByKey(n, key) ==
    LET rank(t) == Cardinality({u \in Idx(n) :
                       key[u] < key[t] \/ (key[u] = key[t] /\ u < t)})
    IN  [i \in Idx(n) |-> CHOOSE t \in Idx(n) : rank(t) = i]

calculateWindOrder(m, cfg) ==
    LET windX == Cos(cfg.windAngleDeg)
        windY == Sin(cfg.windAngleDeg)
        windProjections == [t \in Idx(m.numTriangles) |->
                               m.centers[t].x * windX + m.centers[t].y * windY]
    IN  SortByKey(m.numTriangles, windProjections)

\* Whether neighbor nb of t is upwind of t: the dot product of the vector
\* from nb to t with the turbulent wind direction is positive.  Dividing the
\* direction by its length does not change the sign.
isUpwind(m, t, nb, turb, cfg) ==
    LET windX == Cos(cfg.windAngleDeg)
        windY == Sin(cfg.windAngleDeg)
        turbulence    == Mul(turb, Frac(2, 10))
        adjustedWindX == windX + Mul(turbulence, windY)
        adjustedWindY == windY - Mul(turbulence, windX)
        dx == m.centers[t].x - m.centers[nb].x
        dy == m.centers[t].y - m.centers[nb].y
    IN  dx * adjustedWindX + dy * adjustedWindY > 0

\* The body of the loop over the neighbors of t for slot j: what an upwind
\* neighbor adds to moisture_t[t] (the transfer less the rain shadow) and to
\* rainfall_t[t].  mo is moisture_t so far.
neighborEffect(m, e, nz, cfg, mo, t, j) ==
    LET neighbor == m.neighbors[t][j]
        elevationDiff == e[t] - e[neighbor]
        rainfallAmount ==
            Mul(Mul(Mul(mo[neighbor], cfg.raininess),
                    Min2(ONE, elevationDiff * 5)),
                IF e[t] > cfg.seaLevel THEN ONE ELSE Frac(3, 10))
        shadowStrength ==
            Min2(Frac(9, 10), Mul(cfg.rainShadow, elevationDiff) * 2)
    IN  IF neighbor = -1 THEN [moisture |-> 0, rainfall |-> 0]
        ELSE IF ~isUpwind(m, t, neighbor, nz[t].windturb, cfg)
        THEN [moisture |-> 0, rainfall |-> 0]
        ELSE IF e[t] > e[neighbor]
        THEN [moisture |-> Mul(mo[neighbor], Frac(2, 10))
                           - (IF elevationDiff > Frac(1, 10)
                              THEN Mul(mo[neighbor], shadowStrength) ELSE 0),
              rainfall |-> rainfallAmount]
        ELSE [moisture |-> Mul(mo[neighbor], Frac(2, 10)), rainfall |-> 0]

\* An iteration of the loop over windOrder that skips the deep water only,
\* not the boundary.  (The iteration of the code, moistureStep, follows.)
MutMoistureStep(m, e, nz, cfg, st, t) ==
    LET mo  == st.moisture_t
        eff == [j \in 0 .. 2 |-> neighborEffect(m, e, nz, cfg, mo, t, j)]
        rainfall == st.rainfall_t[t]
                    + eff[0].rainfall + eff[1].rainfall + eff[2].rainfall
        clamped  == Max2(0, Min2(ONE, mo[t] + eff[0].moisture
                                      + eff[1].moisture + eff[2].moisture))
        moisture ==
            IF e[t] < cfg.seaLevel THEN ONE
            ELSE IF rainfall > 0
                 THEN Min2(ONE, clamped
                                + Mul(Mul(rainfall, cfg.evaporation), Frac(3, 10)))
                 ELSE clamped
    IN  IF e[t] < cfg.seaLevel - Frac(1, 10)
        THEN st
        ELSE [moisture_t |-> [mo EXCEPT ![t] = moisture],
              rainfall_t |-> [st.rainfall_t EXCEPT ![t] = rainfall]]

\* One iteration of the loop over windOrder: st holds moisture_t and
\* rainfall_t so far.
moistureStep(m, e, nz, cfg, st, t) ==
    LET mo  == st.moisture_t
        eff == [j \in 0 .. 2 |-> neighborEffect(m, e, nz, cfg, mo, t, j)]
        rainfall == st.rainfall_t[t]
                    + eff[0].rainfall + eff[1].rainfall + eff[2].rainfall
        clamped  == Max2(0, Min2(ONE, mo[t] + eff[0].moisture
                                      + eff[1].moisture + eff[2].moisture))
        moisture ==
            IF e[t] < cfg.seaLevel THEN ONE
            ELSE IF rainfall > 0
                 THEN Min2(ONE, clamped
                                + Mul(Mul(rainfall, cfg.evaporation), Frac(3, 10)))
                 ELSE clamped
    IN  IF m.is_boundary_t[t] = 1 \/ e[t] < cfg.seaLevel - Frac(1, 10)
        THEN st
        ELSE [moisture_t |-> [mo EXCEPT ![t] = moisture],
              rainfall_t |-> [st.rainfall_t EXCEPT ![t] = rainfall]]

RECURSIVE moistureLoop(_, _, _, _, _, _, _)
\* The loop over windOrder from position k on.
moistureLoop(m, e, order, nz, cfg, st, k) ==
    IF k = m.numTriangles THEN st
    ELSE moistureLoop(m, e, order, nz, cfg,
                      moistureStep(m, e, nz, cfg, st, order[k]), k + 1)

\* The final pass of calculateMoisture: rainfall divided by its maximum.
MutNormalizeRainfall(rainfall) == rainfall

normalizeRainfall(rainfall) ==
    LET maxRainfall == SetMax({0} \cup {rainfall[t] : t \in DOMAIN rainfall})
    IN  IF maxRainfall > 0
        THEN [t \in DOMAIN rainfall |-> (rainfall[t] * ONE) \div maxRainfall]
        ELSE rainfall

calculateMoisture(m, e, order, nz, cfg) ==
    LET init == [moisture_t |-> [t \in Idx(m.numTriangles) |->
                                    IF e[t] < cfg.seaLevel THEN ONE
                                    ELSE Frac(1, 10)],
                 rainfall_t |-> [t \in Idx(m.numTriangles) |-> 0]]
        final == moistureLoop(m, e, order, nz, cfg, init, 0)
    IN  [moisture_t |-> final.moisture_t,
         rainfall_t |-> normalizeRainfall(final.rainfall_t)]

(***************************************************************************)
(* FlatQueue (the flatqueue package): a binary min-heap of ids by value,   *)
(* kept in the arrays ids and values over 0 .. length-1.                   *)
(***************************************************************************)

EmptyQueue == [ids |-> <<>>, values |-> <<>>, length |-> 0]

RECURSIVE siftUp(_, _, _, _)
\* The loop of push: parents with a larger value move down.
siftUp(q, id, value, pos) ==
    LET parent == (pos - 1) \div 2
    IN  IF pos > 0 /\ value < q.values[parent]
        THEN siftUp([q EXCEPT !.ids[pos] = q.ids[parent],
                              !.values[pos] = q.values[parent]],
                    id, value, parent)
        ELSE [q EXCEPT !.ids[pos] = id, !.values[pos] = value]

QueuePush(q, id, value) ==
    siftUp([ids    |-> [i \in Idx(q.length + 1) |->
                           IF i < q.length THEN q.ids[i] ELSE id],
            values |-> [i \in Idx(q.length + 1) |->
                           IF i < q.length THEN q.values[i] ELSE value],
            length |-> q.length + 1],
           id, value, q.length)

RECURSIVE siftDown(_, _, _, _)
\* The loop of pop: the smaller child moves up, the right one only when it
\* is strictly smaller than the left one.
siftDown(q, id, value, pos) ==
    LET left  == 2 * pos + 1
        right == left + 1
        best  == IF right < q.length /\ q.values[right] < q.values[left]
                 THEN right ELSE left
    IN  IF pos < q.length \div 2 /\ q.values[best] < value
        THEN siftDown([q EXCEPT !.ids[pos] = q.ids[best],
                                !.values[pos] = q.values[best]],
                      id, value, best)
        ELSE [q EXCEPT !.ids[pos] = id, !.values[pos] = value]

\* The id pop returns.
QueueTop(q) == q.ids[0]

\* The queue pop leaves.
QueuePop(q) ==
    LET length == q.length - 1
        rest   == [ids    |-> [i \in Idx(length) |-> q.ids[i]],
                   values |-> [i \in Idx(length) |-> q.values[i]],
                   length |-> length]
    IN  IF length > 0
        THEN siftDown(rest, q.ids[length], q.values[length], 0)
        ELSE rest

(***************************************************************************)
(* Rivers (climate.ts)                                                     *)
(***************************************************************************)

RECURSIVE MutLowestNeighbor(_, _, _, _, _, _)
\* A first pass that also takes a neighbor of the same elevation.
MutLowestNeighbor(m, e, t, j, lowest, lowestElevation) ==
    IF j = 3 THEN lowest
    ELSE LET neighbor == m.neighbors[t][j]
         IN  IF neighbor # -1 /\ e[neighbor] <= lowestElevation
             THEN MutLowestNeighbor(m, e, t, j + 1, neighbor, e[neighbor])
             ELSE MutLowestNeighbor(m, e, t, j + 1, lowest, lowestElevation)

RECURSIVE lowestNeighbor(_, _, _, _, _, _)
\* The first pass of calculateDownslope for triangle t, from slot j on.
lowestNeighbor(m, e, t, j, lowest, lowestElevation) ==
    IF j = 3 THEN lowest
    ELSE LET neighbor == m.neighbors[t][j]
         IN  IF neighbor # -1 /\ e[neighbor] < lowestElevation
             THEN lowestNeighbor(m, e, t, j + 1, neighbor, e[neighbor])
             ELSE lowestNeighbor(m, e, t, j + 1, lowest, lowestElevation)

firstPass(m, e) ==
    [t \in Idx(m.numTriangles) |-> lowestNeighbor(m, e, t, 0, -1, e[t])]

RECURSIVE scanNeighbors(_, _, _, _, _, _)
\* The loop over the neighbors of current in the search from a sink: the
\* first unvisited neighbor with a downslope ends the search, the others
\* are pushed.  The result is [found, queue].
scanNeighbors(m, e, ds, visited, current, s) ==
    IF s.j = 3 THEN [found |-> -1, queue |-> s.queue]
    ELSE LET neighbor == m.neighbors[current][s.j]
         IN  IF neighbor = -1 \/ neighbor \in visited
             THEN scanNeighbors(m, e, ds, visited, current,
                                [s EXCEPT !.j = s.j + 1])
             ELSE IF ds[neighbor] # -1
             THEN [found |-> neighbor, queue |-> s.queue]
             ELSE scanNeighbors(m, e, ds, visited, current,
                                [j |-> s.j + 1,
                                 queue |-> QueuePush(s.queue, neighbor,
                                                     e[neighbor])])

\* A search from a sink that looks at the neighbors of the sink only.
MutSearchDrainage(m, e, ds, visited, queue) ==
    IF queue.length = 0 THEN -1
    ELSE scanNeighbors(m, e, ds, visited \cup {QueueTop(queue)},
                       QueueTop(queue),
                       [j |-> 0, queue |-> QueuePop(queue)]).found

RECURSIVE searchDrainage(_, _, _, _, _)
\* The while loop of the search from a sink: the triangle the sink is sent
\* to, or -1 when the queue runs empty.
searchDrainage(m, e, ds, visited, queue) ==
    IF queue.length = 0 THEN -1
    ELSE LET current == QueueTop(queue)
             popped  == QueuePop(queue)
         IN  IF current \in visited
             THEN searchDrainage(m, e, ds, visited, popped)
             ELSE LET r == scanNeighbors(m, e, ds, visited \cup {current},
                                         current, [j |-> 0, queue |-> popped])
                  IN  IF r.found # -1 THEN r.found
                      ELSE searchDrainage(m, e, ds, visited \cup {current},
                                          r.queue)

RECURSIVE resolveSinks(_, _, _, _)
\* The second loop of calculateDownslope, from triangle t on: every
\* triangle whose downslope is still -1 is searched from.
resolveSinks(m, e, ds, t) ==
    IF t = m.numTriangles THEN ds
    ELSE IF ds[t] # -1 THEN resolveSinks(m, e, ds, t + 1)
    ELSE LET found == searchDrainage(m, e, ds, {},
                                     QueuePush(EmptyQueue, t, 0))
         IN  resolveSinks(m, e,
                          IF found # -1 THEN [ds EXCEPT ![t] = found] ELSE ds,
                          t + 1)

calculateDownslope(m, e) == resolveSinks(m, e, firstPass(m, e), 0)

\* The initial flow of triangle t: rainfall on land, with the bonus of the
\* triangles more than 0.5 above the sea.
MutInitialFlow(e, rainfall, cfg, t) ==
    IF e[t] >= cfg.seaLevel THEN rainfall[t] ELSE 0

initialFlow(e, rainfall, cfg, t) ==
    LET elevationAboveSea == e[t] - cfg.seaLevel
        rain == Mul(rainfall[t], cfg.rivers)
    IN  IF e[t] >= cfg.seaLevel
        THEN IF elevationAboveSea > Frac(5, 10)
             THEN Mul(rain, ONE + (elevationAboveSea - Frac(5, 10)))
             ELSE rain
        ELSE 0

RECURSIVE accumulateFlow(_, _, _, _, _)
\* The loop over trianglesByElevation from position k on.
accumulateFlow(m, ds, order, flow, k) ==
    IF k = m.numTriangles THEN flow
    ELSE LET t == order[k]
             downstream == ds[t]
         IN  IF downstream >= 0 /\ m.is_boundary_t[t] = 0
             THEN accumulateFlow(m, ds, order,
                                 [flow EXCEPT ![downstream] = @ + flow[t]],
                                 k + 1)
             ELSE accumulateFlow(m, ds, order, flow, k + 1)

\* The minimum flow to start a river.
riverSourceThreshold == Frac(1, 10)

\* Whether triangle t starts a river.
isRiverSource(e, flow, cfg, t) ==
    /\ e[t] >= cfg.seaLevel
    /\ flow[t] >= riverSourceThreshold
    /\ e[t] > Frac(5, 10)

\* The two tests that end a river: the next triangle is none or on the
\* boundary, or it lies below the sea.
MutRiverEnds(m, e, cfg, next) == next < 0 \/ m.is_boundary_t[next] = 1

riverEnds(m, e, cfg, next) ==
    \/ next < 0 \/ m.is_boundary_t[next] = 1
    \/ e[next] < cfg.seaLevel

RECURSIVE MutTracePath(_, _, _, _, _)
\* A trace that ends at the first triangle met again and keeps the path.
MutTracePath(m, e, ds, cfg, path) ==
    LET current == path[Len(path)]
        next    == ds[current]
    IN  IF riverEnds(m, e, cfg, next) \/ \E i \in 1 .. Len(path) : path[i] = next
        THEN [triangles |-> path, isValid |-> TRUE]
        ELSE MutTracePath(m, e, ds, cfg, Append(path, next))

RECURSIVE tracePath(_, _, _, _, _)
\* The while (true) loop that follows downslope_t from the source: the path
\* and whether it stayed free of cycles.
tracePath(m, e, ds, cfg, path) ==
    LET current == path[Len(path)]
        next    == ds[current]
    IN  IF riverEnds(m, e, cfg, next)
        THEN [triangles |-> path, isValid |-> TRUE]
        ELSE IF \E i \in 1 .. Len(path) : path[i] = next
        THEN [triangles |-> path, isValid |-> FALSE]
        ELSE tracePath(m, e, ds, cfg, Append(path, next))

RECURSIVE collectRivers(_, _, _, _, _, _, _)
\* The loop over the river sources from triangle t on: the paths pushed.
collectRivers(m, e, ds, flow, cfg, t, paths) ==
    IF t = m.numTriangles THEN paths
    ELSE IF isRiverSource(e, flow, cfg, t)
    THEN LET traced == tracePath(m, e, ds, cfg, <<t>>)
         IN  collectRivers(m, e, ds, flow, cfg, t + 1,
                 IF traced.isValid /\ Len(traced.triangles) > 3
                 THEN Append(paths, [triangles |-> traced.triangles,
                                     sourceTriangle |-> t,
                                     flow |-> flow[t]])
                 ELSE paths)
    ELSE collectRivers(m, e, ds, flow, cfg, t + 1, paths)

\* A sort that leaves the paths in the order they were pushed.
MutSortByFlow(paths) == paths

\* riverPaths.sort((a, b) => b.flow - a.flow), a stable sort.
sortByFlow(paths) ==
    LET rank(k) == Cardinality({i \in 1 .. Len(paths) :
                       \/ paths[i].flow > paths[k].flow
                       \/ (paths[i].flow = paths[k].flow /\ i < k)})
    IN  [i \in 1 .. Len(paths) |->
            paths[CHOOSE k \in 1 .. Len(paths) : rank(k) = i - 1]]

maxRivers == 100

\* The end of calculateFlowAccumulation: the paths are sorted by flow and
\* the array is cut to maxRivers entries.
retainRivers(paths) ==
    LET sorted == sortByFlow(paths)
    IN  IF Len(sorted) > maxRivers
        THEN SubSeq(sorted, 1, maxRivers) ELSE sorted

calculateFlowAccumulation(m, e, rainfall, ds, cfg) ==
    LET initial == [t \in Idx(m.numTriangles) |->
                       initialFlow(e, rainfall, cfg, t)]
        trianglesByElevation ==
            SortByKey(m.numTriangles, [t \in Idx(m.numTriangles) |-> -e[t]])
        flow   == accumulateFlow(m, ds, trianglesByElevation, initial, 0)
    IN  [flow_t |-> flow,
         riverPaths |-> retainRivers(collectRivers(m, e, ds, flow, cfg, 0,
                                                   <<>>))]

(***************************************************************************)
(* Biomes (biomes.ts, types.ts)                                            *)
(***************************************************************************)

OCEAN == 0
DEEP_OCEAN == 1
SHALLOW_OCEAN == 2
SHALLOW_WATER == 3
BEACH == 4
SNOW == 5
TUNDRA == 6
TAIGA == 7
GRASSLAND == 8
SHRUBLAND == 9
TEMPERATE_DECIDUOUS_FOREST == 10
TEMPERATE_RAIN_FOREST == 11
TEMPERATE_DESERT == 12
SUBTROPICAL_DESERT == 13
TROPICAL_SEASONAL_FOREST == 14
TROPICAL_RAIN_FOREST == 15
MOUNTAIN == 16
BARE == 17
SCORCHED == 18

\* The values of the enum BiomeType.
BiomeType == 0 .. 18

WaterBiomes == {OCEAN, DEEP_OCEAN, SHALLOW_OCEAN, SHALLOW_WATER}

\* The water biome of a triangle below the sea, by its depth ratio.
MutWaterBiome(depthRatio) ==
    IF depthRatio < Frac(1, 10) THEN SHALLOW_WATER
    ELSE IF depthRatio < Frac(3, 10) THEN SHALLOW_OCEAN
    ELSE IF depthRatio < Frac(7, 10) THEN OCEAN
    ELSE BARE

waterBiome(depthRatio) ==
    IF depthRatio < Frac(1, 10) THEN SHALLOW_WATER
    ELSE IF depthRatio < Frac(3, 10) THEN SHALLOW_OCEAN
    ELSE IF depthRatio < Frac(7, 10) THEN OCEAN
    ELSE DEEP_OCEAN

\* hasNeighborBelow: some neighbor of t lies below the sea.
hasNeighborBelow(m, t, e, seaLevel) ==
    \E j \in 0 .. 2 : m.neighbors[t][j] # -1 /\ e[m.neighbors[t][j]] < seaLevel

\* The biome of a triangle more than 0.7 above the sea.
mountainBiome(temperature) ==
    IF temperature < Frac(2, 10) THEN SNOW
    ELSE IF temperature < Frac(4, 10) THEN TUNDRA
    ELSE MOUNTAIN

\* The biome of a triangle more than 0.4 above the sea.
hillBiome(temperature, moisture) ==
    IF temperature < Frac(2, 10) THEN TUNDRA
    ELSE IF temperature < Frac(5, 10)
    THEN IF moisture < Frac(4, 10) THEN SHRUBLAND ELSE TAIGA
    ELSE IF moisture < Frac(4, 10) THEN TEMPERATE_DESERT
    ELSE IF moisture < Frac(7, 10) THEN TEMPERATE_DECIDUOUS_FOREST
    ELSE TEMPERATE_RAIN_FOREST

\* The biome of the other land triangles, before the beach rule.
lowlandBiome(temperature, moisture) ==
    IF temperature < Frac(2, 10)
    THEN IF moisture < Frac(4, 10) THEN TUNDRA ELSE TAIGA
    ELSE IF temperature < Frac(6, 10)
    THEN IF moisture < Frac(3, 10) THEN TEMPERATE_DESERT
         ELSE IF moisture < Frac(5, 10) THEN GRASSLAND
         ELSE IF moisture < Frac(7, 10) THEN TEMPERATE_DECIDUOUS_FOREST
         ELSE TEMPERATE_RAIN_FOREST
    ELSE IF moisture < Frac(3, 10) THEN SUBTROPICAL_DESERT
    ELSE IF moisture < Frac(5, 10) THEN GRASSLAND
    ELSE IF moisture < Frac(7, 10) THEN TROPICAL_SEASONAL_FOREST
    ELSE TROPICAL_RAIN_FOREST

\* A loop body that makes a beach of every low land triangle, on the coast
\* or not.
MutBiomeOf(m, e, moisture, temperature, seaLevel, t) ==
    LET elevationAboveSea == e[t] - seaLevel
    IN  IF m.is_boundary_t[t] = 1 THEN OCEAN
        ELSE IF e[t] < seaLevel
        THEN waterBiome(((seaLevel - e[t]) * ONE) \div seaLevel)
        ELSE IF elevationAboveSea > Frac(7, 10)
        THEN mountainBiome(temperature[t])
        ELSE IF elevationAboveSea > Frac(4, 10)
        THEN hillBiome(temperature[t], moisture[t])
        ELSE IF elevationAboveSea < Frac(5, 100)
        THEN BEACH
        ELSE lowlandBiome(temperature[t], moisture[t])

\* The body of assignBiomes' loop for triangle t.
biomeOf(m, e, moisture, temperature, seaLevel, t) ==
    LET elevationAboveSea == e[t] - seaLevel
    IN  IF m.is_boundary_t[t] = 1 THEN OCEAN
        ELSE IF e[t] < seaLevel
        THEN waterBiome(((seaLevel - e[t]) * ONE) \div seaLevel)
        ELSE IF elevationAboveSea > Frac(7, 10)
        THEN mountainBiome(temperature[t])
        ELSE IF elevationAboveSea > Frac(4, 10)
        THEN hillBiome(temperature[t], moisture[t])
        ELSE IF hasNeighborBelow(m, t, e, seaLevel)
                /\ elevationAboveSea < Frac(5, 100)
        THEN BEACH
        ELSE lowlandBiome(temperature[t], moisture[t])

assignBiomes(m, e, moisture, temperature, seaLevel) ==
    [t \in Idx(m.numTriangles) |->
        biomeOf(m, e, moisture, temperature, seaLevel, t)]

(***************************************************************************)
(* The steps of generateMap after the elevation                            *)
(***************************************************************************)

\* Step 3: const temperature_t = generateTemperature(mesh, elevation_t, config).
GenerateTemperature ==
    /\ pc = "temperature"
    /\ temperature_t' = generateTemperature(mesh, elevation_t, noise, config)
    /\ pc' = "wind"
    /\ UNCHANGED <<meshVars, inputVars, callVars, terrainVars, windOrder, moisture_t,
                   rainfall_t, hydroVars, outputVars>>

\* Step 3: const windOrder = calculateWindOrder(mesh, config).
CalculateWindOrder ==
    /\ pc = "wind"
    /\ windOrder' = calculateWindOrder(mesh, config)
    /\ pc' = "moisture"
    /\ UNCHANGED <<meshVars, inputVars, callVars, terrainVars, temperature_t, moisture_t,
                   rainfall_t, hydroVars, outputVars>>

\* Step 3: const { moisture_t, rainfall_t } = calculateMoisture(...).
CalculateMoisture ==
    /\ pc = "moisture"
    /\ LET r == calculateMoisture(mesh, elevation_t, windOrder, noise, config)
       IN  /\ moisture_t' = r.moisture_t
           /\ rainfall_t' = r.rainfall_t
    /\ pc' = "downslope"
    /\ UNCHANGED <<meshVars, inputVars, callVars, terrainVars, temperature_t, windOrder,
                   hydroVars, outputVars>>

\* Step 4: const downslope_t = calculateDownslope(mesh, elevation_t).
CalculateDownslope ==
    /\ pc = "downslope"
    /\ downslope_t' = calculateDownslope(mesh, elevation_t)
    /\ pc' = "flow"
    /\ UNCHANGED <<meshVars, inputVars, callVars, terrainVars, climateVars, flow_t,
                   riverPaths, outputVars>>

\* A flow accumulation that adds the flow up in the rainfall array it was
\* handed.
MutCalculateFlowAccumulation ==
    /\ pc = "flow"
    /\ LET r == calculateFlowAccumulation(mesh, elevation_t, rainfall_t,
                                          downslope_t, config)
       IN  /\ flow_t' = r.flow_t
           /\ riverPaths' = r.riverPaths
           /\ rainfall_t' = r.flow_t
    /\ pc' = "biomes"
    /\ UNCHANGED <<meshVars, inputVars, callVars, terrainVars, temperature_t,
                   windOrder, moisture_t, downslope_t, outputVars>>

\* Step 4: const { flow_t, riverPaths } = calculateFlowAccumulation(...).
CalculateFlowAccumulation ==
    /\ pc = "flow"
    /\ LET r == calculateFlowAccumulation(mesh, elevation_t, rainfall_t,
                                          downslope_t, config)
       IN  /\ flow_t' = r.flow_t
           /\ riverPaths' = r.riverPaths
    /\ pc' = "biomes"
    /\ UNCHANGED <<meshVars, inputVars, callVars, terrainVars, climateVars, downslope_t,
                   outputVars>>

\* Step 5: const biomes_t = assignBiomes(...).
AssignBiomes ==
    /\ pc = "biomes"
    /\ biomes_t' = assignBiomes(mesh, elevation_t, moisture_t, temperature_t,
                                config.seaLevel)
    /\ pc' = "raster"
    /\ UNCHANGED <<meshVars, inputVars, callVars, terrainVars, climateVars, hydroVars,
                   mapData>>

Next ==
    \/ CreateMesh
    \/ GenerateElevation
    \/ GenerateTemperature
    \/ CalculateWindOrder
    \/ CalculateMoisture
    \/ CalculateDownslope
    \/ CalculateFlowAccumulation
    \/ AssignBiomes

Spec == Init /\ [][Next]_vars

(***************************************************************************)
(* Properties of the pipeline                                              *)
(***************************************************************************)

HasClimate == pc \in {"downslope", "flow", "biomes"} \cup RasterSteps

HasDownslope == pc \in {"flow", "biomes"} \cup RasterSteps

HasRivers == pc \in {"biomes"} \cup RasterSteps

HasBiomes == pc \in RasterSteps

\* C3: after calculateMoisture every rainfall_t value lies in [0,1], and the
\* maximum of rainfall_t is exactly 1 if some triangle received positive
\* rainfall and 0 otherwise.
C3_RainfallNormalized ==
    HasClimate =>
        /\ \A t \in Triangles : 0 <= rainfall_t[t] /\ rainfall_t[t] <= ONE
        /\ SetMax({rainfall_t[t] : t \in Triangles})
              = (IF \E t \in Triangles : rainfall_t[t] > 0 THEN ONE ELSE 0)

\* Rain fell on two triangles, on one of them less than the maximum.
C3_Witness ==
    /\ HasClimate
    /\ \E t, u \in Triangles :
          /\ rainfall_t[t] = ONE
          /\ 0 < rainfall_t[u] /\ rainfall_t[u] < ONE

\* Every elevation lies in [0,1].
ElevationInRange ==
    \A t \in Triangles : 0 <= elevation_t[t] /\ elevation_t[t] <= ONE

\* C4: for an elevation field in [0,1] and configuration values in their
\* documented ranges, every temperature_t value of generateTemperature and
\* every moisture_t value of calculateMoisture lies in [0,1].
C4_ClimateInRange ==
    (HasClimate /\ ElevationInRange) =>
        \A t \in Triangles :
            /\ 0 <= temperature_t[t] /\ temperature_t[t] <= ONE
            /\ 0 <= moisture_t[t] /\ moisture_t[t] <= ONE

\* The elevation is in [0,1], a temperature sits at the lower clamp, and
\* the moisture takes both an end and an inner value of the range.
C4_Witness ==
    /\ HasClimate
    /\ ElevationInRange
    /\ \E t \in Triangles : temperature_t[t] = 0
    /\ \E t, u \in Triangles :
          /\ moisture_t[t] = ONE
          /\ 0 < moisture_t[u] /\ moisture_t[u] < ONE

\* Triangle t is an outlet: below the sea or on the boundary.
IsOutlet(t) == elevation_t[t] < config.seaLevel \/ mesh.is_boundary_t[t] = 1

RECURSIVE ReachesOutlet(_, _)
\* Following downslope_t from t reaches an outlet within k steps.
ReachesOutlet(t, k) ==
    \/ IsOutlet(t)
    \/ /\ k > 0
       /\ downslope_t[t] # -1
       /\ ReachesOutlet(downslope_t[t], k - 1)

\* C5: after calculateDownslope, following downslope from any land triangle
\* reaches a below-sea triangle or a boundary triangle in finitely many
\* steps; the chain neither stops at none on an interior land triangle nor
\* enters a cycle.
C5_LandDrains ==
    HasDownslope =>
        \A t \in Triangles :
            elevation_t[t] >= config.seaLevel => ReachesOutlet(t, mesh.numTriangles)

\* Triangles t and u are mesh neighbors, each in the other's list.
AreNeighbors(t, u) == u \in NeighborSet(mesh, t) /\ t \in NeighborSet(mesh, u)

\* C6: every river path of calculateFlowAccumulation has more than 3
\* triangles, holds no triangle twice, and every two consecutive triangles
\* of it are mesh neighbors.
C6_RiversWellFormed ==
    HasRivers =>
        \A r \in 1 .. Len(riverPaths) :
            LET path == riverPaths[r].triangles
            IN  /\ Len(path) > 3
                /\ \A i, j \in 1 .. Len(path) : path[i] = path[j] => i = j
                /\ \A i \in 1 .. Len(path) - 1 : AreNeighbors(path[i], path[i + 1])

\* Triangle t is a sink: a land triangle with no lower neighbor.
IsSink(t) ==
    /\ elevation_t[t] >= config.seaLevel
    /\ \A u \in NeighborSet(mesh, t) : elevation_t[u] >= elevation_t[t]

\* The last triangle of river path r.
LastOf(r) == riverPaths[r].triangles[Len(riverPaths[r].triangles)]

\* C7, as stated: the last triangle of every retained river path is a
\* below-sea triangle, a boundary triangle or a sink.
C7_LastIsOutletOrSink ==
    HasRivers =>
        \A r \in 1 .. Len(riverPaths) : IsOutlet(LastOf(r)) \/ IsSink(LastOf(r))

\* C7, amended: the last triangle of every retained river path is an
\* interior land triangle, and its downslope is none, a boundary triangle or
\* a below-sea triangle.
C7_LastDrainsToOutlet ==
    HasRivers =>
        \A r \in 1 .. Len(riverPaths) :
            /\ ~IsOutlet(LastOf(r))
            /\ \/ downslope_t[LastOf(r)] = -1
               \/ IsOutlet(downslope_t[LastOf(r)])

\* A river was retained, and its last triangle drains into the sea.
C7_Witness ==
    /\ HasRivers
    /\ \E r \in 1 .. Len(riverPaths) :
          /\ downslope_t[LastOf(r)] # -1
          /\ elevation_t[downslope_t[LastOf(r)]] < config.seaLevel

\* C10: assignBiomes gives every triangle a value of BiomeType; the value is
\* a water biome exactly when the triangle is on the boundary or below
\* seaLevel, and boundary triangles are OCEAN.
C10_BiomesDefined ==
    HasBiomes =>
        \A t \in Triangles :
            /\ biomes_t[t] \in BiomeType
            /\ biomes_t[t] \in WaterBiomes <=> IsOutlet(t)
            /\ mesh.is_boundary_t[t] = 1 => biomes_t[t] = OCEAN

\* Biomes were assigned to a boundary triangle above the sea, to an
\* interior triangle below it and to an interior land triangle.
C10_Witness ==
    /\ HasBiomes
    /\ \E t, u, v \in Triangles :
          /\ mesh.is_boundary_t[t] = 1 /\ elevation_t[t] >= config.seaLevel
          /\ mesh.is_boundary_t[u] = 0 /\ biomes_t[u] = DEEP_OCEAN
          /\ mesh.is_boundary_t[v] = 0 /\ biomes_t[v] \notin WaterBiomes

(***************************************************************************)
(* Point generation (points.ts)                                            *)
(***************************************************************************)

RECURSIVE Newton(_, _)
\* Newton's iteration for the whole square root of n, downward from r.
Newton(n, r) ==
    LET next == (r + n \div r) \div 2
    IN  IF next >= r THEN r ELSE Newton(n, next)

\* Math.sqrt of a whole number, rounded down.
Isqrt(n) == IF n = 0 THEN 0 ELSE Newton(n, n)

\* generatePoints: cellSize = Math.sqrt((width * height) /
\* ((width * height * biomeDensity) / 30)), which is sqrt(30 / biomeDensity).
pointCellSize(cfg) == Isqrt((30 * cfg.biomeDensity.d) \div cfg.biomeDensity.n)

\* for (v = from; v <= to; v += step)
RECURSIVE StepsUp(_, _, _)
StepsUp(from, to, step) ==
    IF from > to THEN <<>> ELSE <<from>> \o StepsUp(from + step, to, step)

\* for (v = from; v >= to; v -= step)
RECURSIVE StepsDown(_, _, _)
StepsDown(from, to, step) ==
    IF from < to THEN <<>> ELSE <<from>> \o StepsDown(from - step, to, step)

\* createBoundaryPoints: bottom, right, top and left edge, in this order.
createBoundaryPoints(width, height, spacing) ==
    LET bottom == StepsUp(0, width, spacing)
        right  == StepsUp(spacing, height, spacing)
        top    == StepsDown(width - spacing, 0, spacing)
        left   == StepsDown(height - spacing, spacing, spacing)
    IN  [i \in 1 .. Len(bottom) |-> [x |-> bottom[i], y |-> 0]]
        \o [i \in 1 .. Len(right) |-> [x |-> width, y |-> right[i]]]
        \o [i \in 1 .. Len(top) |-> [x |-> top[i], y |-> height]]
        \o [i \in 1 .. Len(left) |-> [x |-> 0, y |-> left[i]]]

\* The values Math.random() returns in the model: 0, 0.5 and 0.75.
RandomDraws == {0, Frac(1, 2), Frac(3, 4)}

\* (Math.random() * 2 - 1) * cellSize * pointDeviation, in pixels.
jitterOffset(r, cellSize, pointDeviation) ==
    ((2 * r - ONE) * cellSize * pointDeviation) \div (ONE * ONE)

\* The grid positions of the interior loop, row by row:
\* for (y = cellSize / 2; y < height - cellSize / 2; y += cellSize), and
\* the same for x inside it.
interiorGrid(width, height, cellSize) ==
    LET half == cellSize \div 2
        ys == StepsUp(half, height - half - 1, cellSize)
        xs == StepsUp(half, width - half - 1, cellSize)
    IN  [k \in 1 .. Len(ys) * Len(xs) |->
            [x |-> xs[((k - 1) % Len(xs)) + 1],
             y |-> ys[((k - 1) \div Len(xs)) + 1]]]

\* generatePoints: the boundary points, then every grid position moved by
\* two draws of Math.random() and clamped to the inner rectangle.  draws[k]
\* holds the two draws of grid position k.  (mountainPoints, which
\* createMesh does not read, is left out.)
generatePoints(cfg, draws) ==
    LET cellSize == pointCellSize(cfg)
        half     == cellSize \div 2
        grid     == interiorGrid(cfg.width, cfg.height, cellSize)
    IN  createBoundaryPoints(cfg.width, cfg.height, half)
        \o [k \in 1 .. Len(grid) |->
              [x |-> Clamp(half, cfg.width - half,
                           grid[k].x + jitterOffset(draws[k][1], cellSize,
                                                    cfg.pointDeviation)),
               y |-> Clamp(half, cfg.height - half,
                           grid[k].y + jitterOffset(draws[k][2], cellSize,
                                                    cfg.pointDeviation))]]

\* createMesh: flatPoints.push(point.x, point.y) for every point.
flattenPoints(points) ==
    [k \in Idx(2 * Len(points)) |->
        IF k % 2 = 0 THEN points[(k \div 2) + 1].x ELSE points[(k \div 2) + 1].y]

(***************************************************************************)
(* The Delaunay triangulations of the point sets generatePoints returns    *)
(* on a map of 72 x 81 pixels with a cell size of 60: eight boundary       *)
(* points and one interior point, which the jitter puts at x, y in         *)
(* {30, 36}.  At (36, 30) triangle 7 is interior; elsewhere the            *)
(* triangulation is the fan around the interior point.                     *)
(***************************************************************************)

FanTriangulation ==
    [triangles |-> Arr(<<0, 1, 8, 0, 8, 7, 1, 2, 8, 2, 3, 8, 3, 4, 8, 4, 5, 8,
                         5, 6, 8, 6, 7, 8>>),
     halfedges |-> Arr(<<-1, 8, 3, 2, 22, -1, -1, 11, 1, -1, 14, 7, -1, 17, 10,
                         -1, 20, 13, -1, 23, 16, -1, 4, 19>>)]

EarTriangulation ==
    [triangles |-> Arr(<<0, 1, 8, 0, 8, 7, 1, 2, 8, 2, 3, 8, 3, 4, 8, 4, 5, 8,
                         5, 6, 7, 5, 7, 8>>),
     halfedges |-> Arr(<<-1, 8, 3, 2, 22, -1, -1, 11, 1, -1, 14, 7, -1, 17, 10,
                         -1, 23, 13, -1, -1, 21, 20, 4, 16>>)]

\* The coordinates the table below is made for.
JitterPoints(px, py) ==
    Arr(<<0, 0, 30, 0, 60, 0, 72, 30, 72, 60, 42, 81, 12, 81, 0, 51, px, py>>)

\* new Delaunator(flatPoints), on the point sets above.
Delaunator(coords) ==
    CASE coords = JitterPoints(36, 30) -> EarTriangulation
      [] coords \in {JitterPoints(30, 30), JitterPoints(30, 36),
                     JitterPoints(36, 36)} -> FanTriangulation

\* Twice the signed area of the triangle a, b, c.
Orient(a, b, c) == (b.x - a.x) * (c.y - a.y) - (b.y - a.y) * (c.x - a.x)

\* Whether d lies strictly inside the circle through a, b and c.
InCircle(a, b, c, d) ==
    LET ax == a.x - d.x
        ay == a.y - d.y
        bx == b.x - d.x
        by == b.y - d.y
        cx == c.x - d.x
        cy == c.y - d.y
        det == (ax * ax + ay * ay) * (bx * cy - cx * by)
               - (bx * bx + by * by) * (ax * cy - cx * ay)
               + (cx * cx + cy * cy) * (ax * by - bx * ay)
    IN  IF Orient(a, b, c) > 0 THEN det > 0 ELSE det < 0

\* The Delaunay condition on a flat point array and its triangles: no
\* point lies strictly inside the circumcircle of a triangle.
IsDelaunay(coords, dl) ==
    LET P(i) == [x |-> coords[2 * i], y |-> coords[2 * i + 1]]
    IN  \A t \in Idx(Size(dl.triangles) \div 3) :
            /\ Orient(P(dl.triangles[3 * t]), P(dl.triangles[3 * t + 1]),
                      P(dl.triangles[3 * t + 2])) # 0
            /\ \A i \in Idx(Size(coords) \div 2) :
                   ~InCircle(P(dl.triangles[3 * t]), P(dl.triangles[3 * t + 1]),
                             P(dl.triangles[3 * t + 2]), P(i))

(***************************************************************************)
(* Rasterization (terrain.ts, climate.ts, biomes.ts)                       *)
(***************************************************************************)

\* const cellSize = 20: the side of a cell of the spatial hash, in pixels.
cellSize == 20

\* let minDist = Infinity: larger than every squared distance on a map.
Infinity == 1000000000

\* Math.ceil(a / b) for positive whole numbers.
CeilDiv(a, b) == (a + b - 1) \div b

RECURSIVE insertTriangles(_, _, _, _, _)
\* The loop that fills the spatial hash: triangle t is pushed on the cell
\* of its center when that cell is on the grid.
insertTriangles(m, gridWidth, gridHeight, t, hash) ==
    IF t = m.numTriangles THEN hash
    ELSE LET cx == m.centers[t].x \div cellSize
             cy == m.centers[t].y \div cellSize
         IN  IF cx >= 0 /\ cx < gridWidth /\ cy >= 0 /\ cy < gridHeight
             THEN insertTriangles(m, gridWidth, gridHeight, t + 1,
                                  [hash EXCEPT ![cy][cx] = Append(@, t)])
             ELSE insertTriangles(m, gridWidth, gridHeight, t + 1, hash)

spatialHash(m, gridWidth, gridHeight) ==
    insertTriangles(m, gridWidth, gridHeight, 0,
                    [cy \in Idx(gridHeight) |-> [cx \in Idx(gridWidth) |-> <<>>]])

RECURSIVE scanCell(_, _, _, _, _, _)
\* for (const t of spatialHash[ny][nx]): a strictly smaller squared
\* distance replaces the closest triangle so far.
scanCell(m, bucket, i, x, y, best) ==
    IF i > Len(bucket) THEN best
    ELSE LET t  == bucket[i]
             dx == m.centers[t].x - x
             dy == m.centers[t].y - y
             distSquared == dx * dx + dy * dy
         IN  scanCell(m, bucket, i + 1, x, y,
                      IF distSquared < best.minDist
                      THEN [minDist |-> distSquared, closestT |-> t]
                      ELSE best)

RECURSIVE scanCells(_, _, _, _, _, _, _, _)
\* The loops over ny and nx: the cells from (nx, ny) on, row by row, of
\* the block with columns x0 .. x1 that ends at row y1.
scanCells(m, hash, x0, x1, y1, nx, ny, s) ==
    IF ny > y1 THEN s.best
    ELSE IF nx > x1 THEN scanCells(m, hash, x0, x1, y1, x0, ny + 1, s)
    ELSE scanCells(m, hash, x0, x1, y1, nx + 1, ny,
                   [s EXCEPT !.best = scanCell(m, hash[ny][nx], 1, s.x, s.y,
                                               s.best)])

\* The body of the pixel loop: the closest triangle found in the cell of
\* (x, y) and the cells around it; triangle 0 when these hold none.
closestT(m, hash, gridWidth, gridHeight, x, y) ==
    LET cx == x \div cellSize
        cy == y \div cellSize
        x0 == Max2(0, cx - 1)
    IN  scanCells(m, hash, x0, Min2(gridWidth - 1, cx + 1),
                  Min2(gridHeight - 1, cy + 1), x0, Max2(0, cy - 1),
                  [x |-> x, y |-> y,
                   best |-> [minDist |-> Infinity, closestT |-> 0]]).closestT

\* The triangle each pixel of the grid takes its value from.
closestGrid(m, width, height) ==
    LET gridWidth  == CeilDiv(width, cellSize)
        gridHeight == CeilDiv(height, cellSize)
        hash       == spatialHash(m, gridWidth, gridHeight)
    IN  [y \in Idx(height) |->
            [x \in Idx(width) |-> closestT(m, hash, gridWidth, gridHeight, x, y)]]

\* rasterizeElevation: grid[y][x] = elevation_t[closestT].
rasterizeElevation(m, e, width, height) ==
    LET closest == closestGrid(m, width, height)
    IN  [y \in Idx(height) |-> [x \in Idx(width) |-> e[closest[y][x]]]]

\* rasterizeClimate: the moisture and the temperature of the closest triangle.
rasterizeClimate(m, moisture, temperature, width, height) ==
    LET closest == closestGrid(m, width, height)
    IN  [moisture    |-> [y \in Idx(height) |->
                            [x \in Idx(width) |-> moisture[closest[y][x]]]],
         temperature |-> [y \in Idx(height) |->
                            [x \in Idx(width) |-> temperature[closest[y][x]]]]]

\* rasterizeBiomes with the triangle after the closest one.
MutRasterizeBiomes(m, biomes, width, height) ==
    LET closest == closestGrid(m, width, height)
    IN  [y \in Idx(height) |->
            [x \in Idx(width) |->
                biomes[(closest[y][x] + 1) % m.numTriangles]]]

\* rasterizeBiomes: grid[y][x] = biomes_t[closestT].
rasterizeBiomes(m, biomes, width, height) ==
    LET closest == closestGrid(m, width, height)
    IN  [y \in Idx(height) |-> [x \in Idx(width) |-> biomes[closest[y][x]]]]

(***************************************************************************)
(* rasterizeRivers (climate.ts).  Math.log, Math.sqrt and Math.pow are     *)
(* computed in fixed point, to about two decimals.                         *)
(***************************************************************************)

\* Math.sqrt(n) of a whole number n, as a fixed-point value.
Sqrt(n) == Isqrt(n * ONE * ONE)

\* The fixed-point value of ln 2.
LN2 == Frac(693147, 1000000)

RECURSIVE Ln(_)
\* Math.log(x) for x >= 1: halve down to [1, 2), then
\* ln x = 2 (z + z^3/3 + z^5/5) with z = (x - 1) / (x + 1).
Ln(x) ==
    IF x >= 2 * ONE THEN LN2 + Ln(x \div 2)
    ELSE LET z  == ((x - ONE) * ONE) \div (x + ONE)
             z3 == Mul(Mul(z, z), z)
             z5 == Mul(Mul(z3, z), z)
         IN  2 * (z + z3 \div 3 + z5 \div 5)

RECURSIVE ExpNeg(_)
\* Math.exp(-x) for x >= 0: halve per ln 2, then the series to x^4/24.
ExpNeg(x) ==
    IF x >= LN2 THEN ExpNeg(x - LN2) \div 2
    ELSE LET x2 == Mul(x, x)
             x3 == Mul(x2, x)
             x4 == Mul(x3, x)
         IN  ONE - x + x2 \div 2 - x3 \div 6 + x4 \div 24

\* Math.pow(b, 0.8) for 0 <= b <= 1.
Pow08(b) ==
    IF b <= 0 THEN 0
    ELSE ExpNeg(Mul(Frac(8, 10), Ln((ONE * ONE) \div b)))

\* What one triangle of a river path draws: the pixel of its center, the
\* scaled width and the radius.  inside is false when the center is off
\* the grid, and the triangle then draws nothing.
riverStamp(m, path, i, width, height, cfg) ==
    LET t               == path.triangles[i + 1]
        positionFactor  == Frac(i, Len(path.triangles))
        accumulatedFlow == Mul(path.flow,
                               Frac(2, 10) + Mul(Frac(8, 10), positionFactor))
        scaledWidth     == Max2(ONE, Mul(Ln(ONE + accumulatedFlow * 10),
                                         cfg.riverWidth) * 5)
        x               == m.centers[t].x
        y               == m.centers[t].y
    IN  [x |-> x, y |-> y,
         inside |-> ~(x < 0 \/ x >= width \/ y < 0 \/ y >= height),
         scaledWidth |-> scaledWidth,
         radius |-> Max2(1, CeilDiv(scaledWidth, ONE))]

\* The stamps of all river paths; a path of fewer than 2 triangles is
\* skipped.
riverStamps(m, paths, width, height, cfg) ==
    UNION {{riverStamp(m, paths[k], i, width, height, cfg) :
               i \in Idx(Len(paths[k].triangles))} :
           k \in {k \in 1 .. Len(paths) : Len(paths[k].triangles) >= 2}}

\* What stamp s writes at pixel (nx, ny): intensity * scaledWidth inside
\* the disc of the scaled width, within the square of the radius.
MutStampValue(s, nx, ny) ==
    IF /\ s.inside
       /\ -s.radius <= nx - s.x /\ nx - s.x <= s.radius
       /\ -s.radius <= ny - s.y /\ ny - s.y <= s.radius
    THEN s.scaledWidth
    ELSE 0

stampValue(s, nx, ny) ==
    LET dx   == nx - s.x
        dy   == ny - s.y
        dist == Sqrt(dx * dx + dy * dy)
    IN  IF /\ s.inside
           /\ -s.radius <= dx /\ dx <= s.radius
           /\ -s.radius <= dy /\ dy <= s.radius
           /\ dist <= s.scaledWidth
        THEN Mul(Pow08(ONE - (dist * ONE) \div s.scaledWidth), s.scaledWidth)
        ELSE 0

\* rasterizeRivers: a grid of zeros on which every triangle of every
\* river path draws a disc, each pixel keeping the maximum written to it.
rasterizeRivers(m, paths, width, height, cfg) ==
    LET stamps == riverStamps(m, paths, width, height, cfg)
    IN  [y \in Idx(height) |->
            [x \in Idx(width) |->
                SetMax({0} \cup {stampValue(s, x, y) : s \in stamps})]]

(***************************************************************************)
(* SpecMap: calls of generateMap, one after the other, from               *)
(* generatePoints to the returned MapData, on a map of 72 x 81 pixels      *)
(* with one interior point.                                                *)
(***************************************************************************)

\* How many calls of generateMap a behaviour makes.
MaxCalls == 2

\* The sea levels of the calls: the default and the top of the range.
MapSeaLevels == {Frac(4, 10), Frac(7, 10)}

\* The configurations of the calls: seed 3 on 72 x 81 pixels, a cell size
\* of 60 and a point deviation of 0.2, at each of the sea levels.
MapConfigs ==
    {[DefaultConfig EXCEPT !.seed = 3, !.width = 72, !.height = 81,
                           !.biomeDensity = [n |-> 1, d |-> 120],
                           !.pointDeviation = Frac(2, 10),
                           !.seaLevel = s] : s \in MapSeaLevels}

\* The noise fields of a seed on mesh m: a fixed function of the seed and
\* of the center of the triangle, as the seeded noise functions are.
seededNoise(seed, m) ==
    [t \in Idx(m.numTriangles) |->
        IF m.is_boundary_t[t] = 1 THEN BoundarySample
        ELSE SampleTable[1 + ((seed + m.centers[t].x + m.centers[t].y)
                              % Min2(NumSamples, Len(SampleTable)))]]

\* The state in which a call of generateMap starts.
CallStarts ==
    /\ pc = "points"
    /\ flatPoints = None
    /\ delaunay = None
    /\ mesh = NoMesh
    /\ noise = None
    /\ StagesUnset

InitMap ==
    /\ config \in MapConfigs
    /\ returned = <<>> /\ loading = FALSE /\ timeouts = <<>>
    /\ CallStarts

\* generateMap, step 1: const pointsData = generatePoints(config).
GeneratePoints ==
    /\ pc = "points"
    /\ \E draws \in [1 .. Len(interiorGrid(config.width, config.height,
                                           pointCellSize(config)))
                     -> RandomDraws \X RandomDraws] :
           flatPoints' = flattenPoints(generatePoints(config, draws))
    /\ pc' = "delaunay"
    /\ UNCHANGED <<delaunay, mesh, inputVars, callVars, terrainVars,
                   climateVars, hydroVars, outputVars>>

\* createMesh: const delaunay = new Delaunator(flatPoints).
Triangulate ==
    /\ pc = "delaunay"
    /\ delaunay' = Delaunator(flatPoints)
    /\ pc' = "mesh"
    /\ UNCHANGED <<flatPoints, mesh, inputVars, callVars, terrainVars,
                   climateVars, hydroVars, outputVars>>

\* generateMap, step 2: precalculateNoise, calculateMountainDistance and
\* generateContinentMask give the fields generateElevation reads.
SampleNoise ==
    /\ pc = "terrain"
    /\ noise = None
    /\ noise' = seededNoise(config.seed, mesh)
    /\ UNCHANGED <<pc, meshVars, config, callVars, terrainVars, climateVars,
                   hydroVars, outputVars>>

\* Step 6: mapData.elevation = rasterizeElevation(mesh, elevation_t, ...).
RasterizeElevation ==
    /\ pc = "raster"
    /\ mapData' = [width |-> config.width, height |-> config.height,
                   elevation |-> rasterizeElevation(mesh, elevation_t,
                                                    config.width, config.height),
                   moisture |-> <<>>, temperature |-> <<>>,
                   biomes |-> <<>>, rivers |-> <<>>]
    /\ pc' = "rasterClimate"
    /\ UNCHANGED <<meshVars, inputVars, callVars, terrainVars, climateVars,
                   hydroVars, biomes_t>>

\* Step 6: const climateGrids = rasterizeClimate(...).
RasterizeClimate ==
    /\ pc = "rasterClimate"
    /\ LET climateGrids == rasterizeClimate(mesh, moisture_t, temperature_t,
                                            config.width, config.height)
       IN  mapData' = [mapData EXCEPT !.moisture = climateGrids.moisture,
                                      !.temperature = climateGrids.temperature]
    /\ pc' = "rasterRivers"
    /\ UNCHANGED <<meshVars, inputVars, callVars, terrainVars, climateVars,
                   hydroVars, biomes_t>>

\* Step 6: mapData.rivers = rasterizeRivers(mesh, riverPaths, ...).
RasterizeRivers ==
    /\ pc = "rasterRivers"
    /\ mapData' = [mapData EXCEPT !.rivers = rasterizeRivers(mesh, riverPaths,
                                        config.width, config.height, config)]
    /\ pc' = "rasterBiomes"
    /\ UNCHANGED <<meshVars, inputVars, callVars, terrainVars, climateVars,
                   hydroVars, biomes_t>>

\* Step 6: mapData.biomes = rasterizeBiomes(mesh, biomes_t, width, height).
RasterizeBiomes ==
    /\ pc = "rasterBiomes"
    /\ mapData' = [mapData EXCEPT !.biomes = rasterizeBiomes(mesh, biomes_t,
                                                config.width, config.height)]
    /\ pc' = "return"
    /\ UNCHANGED <<meshVars, inputVars, callVars, terrainVars, climateVars,
                   hydroVars, biomes_t>>

\* return mapData; the caller then makes its next call, if it has one.
Return ==
    /\ pc = "return"
    /\ returned' = Append(returned, [config |-> config, mapData |-> mapData])
    /\ UNCHANGED <<loading, timeouts>>
    /\ config' \in MapConfigs
    /\ pc' = IF Len(returned) + 1 < MaxCalls THEN "points" ELSE "done"
    /\ flatPoints' = None
    /\ delaunay' = None
    /\ mesh' = NoMesh
    /\ noise' = None
    /\ mountainDistance' = None
    /\ elevation_t' = None
    /\ temperature_t' = None
    /\ windOrder' = None
    /\ moisture_t' = None
    /\ rainfall_t' = None
    /\ downslope_t' = None
    /\ flow_t' = None
    /\ riverPaths' = None
    /\ biomes_t' = None
    /\ mapData' = None

NextMap ==
    \/ GeneratePoints
    \/ Triangulate
    \/ CreateMesh
    \/ SampleNoise
    \/ GenerateElevation
    \/ GenerateTemperature
    \/ CalculateWindOrder
    \/ CalculateMoisture
    \/ CalculateDownslope
    \/ CalculateFlowAccumulation
    \/ AssignBiomes
    \/ RasterizeElevation
    \/ RasterizeClimate
    \/ RasterizeRivers
    \/ RasterizeBiomes
    \/ Return

SpecMap == InitMap /\ [][NextMap]_vars

(***************************************************************************)
(* Properties of the calls of generateMap                                  *)
(***************************************************************************)

\* The squared distance of pixel (x, y) to the center of triangle t.
DistSquared(t, x, y) ==
    (mesh.centers[t].x - x) * (mesh.centers[t].x - x)
    + (mesh.centers[t].y - y) * (mesh.centers[t].y - y)

\* The triangles of the mesh whose center is nearest to pixel (x, y).
NearestTriangles(x, y) ==
    {t \in Triangles : \A u \in Triangles : DistSquared(t, x, y) <= DistSquared(u, x, y)}

\* Every pixel of the grid holds the value some nearest triangle has in
\* the array the grid was rasterized from.
NearestValues(grid, value_t) ==
    \A y \in Idx(config.height) : \A x \in Idx(config.width) :
        \E t \in NearestTriangles(x, y) : grid[y][x] = value_t[t]

ElevationRasterized == pc \in RasterSteps \ {"raster"}

ClimateRasterized == pc \in RasterSteps \ {"raster", "rasterClimate"}

BiomesRasterized == pc = "return"

\* C9: for every pixel (x, y) of the grid, the value rasterizeElevation
\* wrote is elevation_t of a triangle whose center is nearest to (x, y)
\* among all triangles of the mesh; likewise the values rasterizeClimate
\* and rasterizeBiomes wrote.
C9_NearestCentroid ==
    /\ ElevationRasterized => NearestValues(mapData.elevation, elevation_t)
    /\ ClimateRasterized =>
          /\ NearestValues(mapData.moisture, moisture_t)
          /\ NearestValues(mapData.temperature, temperature_t)
    /\ BiomesRasterized => NearestValues(mapData.biomes, biomes_t)

\* C1: two calls of generateMap with equal MapConfig return identical
\* MapData, whatever calls ran before or between them.
C1_Deterministic ==
    \A i, j \in 1 .. Len(returned) :
        returned[i].config = returned[j].config
            => returned[i].mapData = returned[j].mapData

(***************************************************************************)
(* SpecCall: one call of generateMap on the 9-triangle mesh, from          *)
(* createMesh to the returned MapData.                                     *)
(***************************************************************************)

\* The values of config.rivers: none and the default.
RiverScales == {0, Frac(1, 2)}

\* The configurations of the call: a low sea level with both river scales,
\* and a sea level above the documented range.
CallConfigs ==
    {[DefaultConfig EXCEPT !.seaLevel = Frac(1, 10), !.rivers = r] :
        r \in RiverScales}
    \cup {[DefaultConfig EXCEPT !.seaLevel = Frac(8, 10)]}

\* The triangles of Mesh9 whose noise varies from call to call.
VaryingTriangles == {1, 3, 4}

\* What the noise holds at a varying triangle: low, flat or high terrain.
CallSamples == {SampleTable[1], SampleTable[2], SampleTable[3]}

\* The noise fields of the call: flat terrain noise, except at the
\* varying triangles.
CallNoise ==
    LET m == MeshOf(Mesh9)
    IN  {[t \in Idx(m.numTriangles) |->
            IF m.is_boundary_t[t] = 1 THEN BoundarySample
            ELSE IF t \in VaryingTriangles THEN f[t]
            ELSE SampleTable[2]] :
         f \in [VaryingTriangles -> CallSamples]}

InitCall ==
    /\ pc = "mesh"
    /\ flatPoints = Mesh9.points
    /\ delaunay = [triangles |-> Mesh9.triangles, halfedges |-> Mesh9.halfedges]
    /\ mesh = NoMesh
    /\ config \in CallConfigs
    /\ noise \in CallNoise
    /\ returned = <<>> /\ loading = FALSE /\ timeouts = <<>>
    /\ StagesUnset

NextCall ==
    \/ CreateMesh
    \/ GenerateElevation
    \/ GenerateTemperature
    \/ CalculateWindOrder
    \/ CalculateMoisture
    \/ CalculateDownslope
    \/ CalculateFlowAccumulation
    \/ AssignBiomes
    \/ RasterizeElevation
    \/ RasterizeClimate
    \/ RasterizeRivers
    \/ RasterizeBiomes
    \/ Return

SpecCall == InitCall /\ [][NextCall]_vars

\* mapData.rivers has been assigned.
RiversRasterized == pc \in {"rasterBiomes", "return"}

\* Every pixel of the grid is 0.
AllZero(grid) ==
    \A y \in DOMAIN grid : \A x \in DOMAIN grid[y] : grid[y][x] = 0

\* The configuration record is in the documented ranges (section 3 of the
\* specification).
ValidConfig(cfg) ==
    /\ cfg.width > 0
    /\ cfg.height > 0
    /\ Frac(1, 10) <= cfg.seaLevel /\ cfg.seaLevel <= Frac(7, 10)
    /\ cfg.biomeDensity.n > 0 /\ cfg.biomeDensity.d > 0
    /\ Frac(1, 10) <= cfg.mountainHeight /\ cfg.mountainHeight <= ONE
    /\ 0 <= cfg.pointDeviation /\ cfg.pointDeviation <= Frac(1, 2)
    /\ 0 <= cfg.windAngleDeg /\ cfg.windAngleDeg < 360
    /\ \A v \in {cfg.raininess, cfg.rainShadow, cfg.evaporation} :
           0 <= v /\ v <= 2 * ONE
    /\ \A v \in {cfg.mountainFrequency, cfg.jaggedness} : 0 <= v /\ v <= ONE

\* C11: with config.rivers = 0 and the other fields valid, the rivers grid
\* generateMap returns is 0 at every pixel.
C11_NoRiversAtZeroScale ==
    /\ (RiversRasterized /\ config.rivers = 0 /\ ValidConfig(config))
           => AllZero(mapData.rivers)
    /\ \A i \in 1 .. Len(returned) :
           (returned[i].config.rivers = 0 /\ ValidConfig(returned[i].config))
               => AllZero(returned[i].mapData.rivers)

\* The rivers grid of a call with config.rivers = 0 has been rasterized, on
\* terrain where the default river scale retains a river.
C11_Witness ==
    /\ pc = "rasterBiomes"
    /\ config.rivers = 0
    /\ ValidConfig(config)
    /\ calculateFlowAccumulation(mesh, elevation_t, rainfall_t, downslope_t,
            [config EXCEPT !.rivers = Frac(1, 2)]).riverPaths # <<>>

\* The stamps rasterizeRivers drew for the river paths of the state.
StampsDrawn ==
    riverStamps(mesh, riverPaths, config.width, config.height, config)

\* Pixel (x, y) lies in the disc of stamp s: its distance to the center of
\* the triangle is at most the scaled width.
InDisc(s, x, y) ==
    LET dx == x - s.x
        dy == y - s.y
        whole == CeilDiv(s.scaledWidth, ONE)
    IN  /\ s.inside
        /\ dx * dx + dy * dy <= whole * whole
        /\ (dx * dx + dy * dy) * ONE * ONE <= s.scaledWidth * s.scaledWidth

\* C12: the grid rasterizeRivers returns is >= 0 at every pixel and 0 at
\* every pixel outside the disc of every triangle of every river path; a
\* stamp only raises a pixel, so the pixel holds at least what each stamp
\* wrote there.
C12_RiversGridPainted ==
    RiversRasterized =>
        \A y \in Idx(config.height) : \A x \in Idx(config.width) :
            /\ mapData.rivers[y][x] >= 0
            /\ (\A s \in StampsDrawn : ~InDisc(s, x, y))
                   => mapData.rivers[y][x] = 0
            /\ \A s \in StampsDrawn :
                   mapData.rivers[y][x] >= stampValue(s, x, y)

\* A river was drawn: a pixel outside every disc, and a pixel two stamps
\* wrote different positive values to.
C12_Witness ==
    /\ RiversRasterized
    /\ riverPaths # <<>>
    /\ \E y \in Idx(config.height) : \E x \in Idx(config.width) :
           \A s \in StampsDrawn : ~InDisc(s, x, y)
    /\ \E y \in Idx(config.height) : \E x \in Idx(config.width) :
           \E s1, s2 \in StampsDrawn :
               /\ 0 < stampValue(s1, x, y)
               /\ stampValue(s1, x, y) < stampValue(s2, x, y)
               /\ mapData.rivers[y][x] = stampValue(s2, x, y)

\* C13: generateMap detects a configuration outside the documented ranges
\* before it runs any stage, and returns no MapData for it.
C13_ConfigValidated ==
    /\ (pc \notin {"points", "done"} /\ ~ValidConfig(config)) => StagesUnset
    /\ \A i \in 1 .. Len(returned) : ValidConfig(returned[i].config)

RECURSIVE LeadsTo(_, _, _)
\* Following downslope_t from u reaches t within k steps.
LeadsTo(u, t, k) ==
    /\ u # -1
    /\ \/ u = t
       \/ k > 0 /\ LeadsTo(downslope_t[u], t, k - 1)

\* Triangle t lies on a cycle of downslope_t.
OnCycle(t) == LeadsTo(downslope_t[t], t, mesh.numTriangles)

\* C14: a call of generateMap whose mesh has no triangle, or whose
\* downslope_t still holds a cycle after the sink resolution, fails with an
\* error: it does not reach its return statement.
C14_FailsOnViolation ==
    pc = "return" =>
        /\ mesh.numTriangles > 0
        /\ \A t \in Triangles : ~OnCycle(t)

\* The number of pixels of a biome grid that hold a water biome.
WaterPixels(grid) ==
    Cardinality({p \in (DOMAIN grid) \X (DOMAIN grid[0]) :
                    grid[p[1]][p[2]] \in WaterBiomes})

\* C15: of two calls whose configurations differ in seaLevel alone, the one
\* with seaLevel 0.7 returns strictly more water pixels than the one with
\* seaLevel 0.4.
C15_MoreWaterAtHigherSea ==
    \A i, j \in 1 .. Len(returned) :
        (/\ returned[j].config.seaLevel = Frac(4, 10)
         /\ returned[i].config = [returned[j].config EXCEPT !.seaLevel = Frac(7, 10)])
            => WaterPixels(returned[i].mapData.biomes)
                   > WaterPixels(returned[j].mapData.biomes)

(***************************************************************************)
(* The river paths calculateFlowAccumulation keeps                         *)
(***************************************************************************)

\* The largest number of triangles that are river sources at once.
MaxSources == 102

\* The flows of the sources: a start value, a step and a period give each
\* source a flow of at least the river source threshold.
SourceFlows ==
    {[t \in Idx(n) |-> riverSourceThreshold + ((a + b * t) % c)] :
        n \in MaxSources - 3 .. MaxSources, a \in 0 .. 2, b \in 1 .. 3,
        c \in {1, 5, 7}}

\* The paths pushed by the loop over the sources, in the order of the
\* triangle ids.
pushedPaths(flow) ==
    [i \in 1 .. Cardinality(DOMAIN flow) |->
        [triangles |-> <<i - 1>>, sourceTriangle |-> i - 1,
         flow |-> flow[i - 1]]]

InitRivers ==
    /\ pc = "flow"
    /\ flow_t \in SourceFlows
    /\ riverPaths = None
    /\ flatPoints = None /\ delaunay = None /\ mesh = NoMesh
    /\ config = DefaultConfig /\ noise = None
    /\ mountainDistance = None
    /\ elevation_t = None /\ temperature_t = None /\ windOrder = None
    /\ moisture_t = None /\ rainfall_t = None /\ downslope_t = None
    /\ biomes_t = None /\ mapData = None
    /\ returned = <<>> /\ loading = FALSE /\ timeouts = <<>>

\* The sort and the cut at the end of calculateFlowAccumulation.
RetainRivers ==
    /\ pc = "flow"
    /\ riverPaths' = retainRivers(pushedPaths(flow_t))
    /\ pc' = "biomes"
    /\ UNCHANGED <<meshVars, inputVars, callVars, terrainVars, climateVars,
                   downslope_t, flow_t, outputVars>>

NextRivers == RetainRivers

SpecRivers == InitRivers /\ [][NextRivers]_vars

RiversRetained == pc = "biomes" /\ riverPaths # None

\* The sources whose path is among the paths kept.
KeptSources == {riverPaths[i].sourceTriangle : i \in 1 .. Len(riverPaths)}

\* C16: calculateFlowAccumulation returns at most 100 river paths, in the
\* order of non-increasing source flow, each of them the path of a different
\* source with that source's flow; when more than 100 sources qualify, 100
\* paths are kept and no path that was dropped has a larger flow than a path
\* that was kept.
C16_LargestRiversKept ==
    RiversRetained =>
        /\ Len(riverPaths) <= 100
        /\ Len(riverPaths) = Min2(100, Cardinality(DOMAIN flow_t))
        /\ \A i, j \in 1 .. Len(riverPaths) :
               i < j => /\ riverPaths[i].flow >= riverPaths[j].flow
                        /\ riverPaths[i].sourceTriangle
                              # riverPaths[j].sourceTriangle
        /\ \A i \in 1 .. Len(riverPaths) :
               /\ riverPaths[i].sourceTriangle \in DOMAIN flow_t
               /\ riverPaths[i].flow = flow_t[riverPaths[i].sourceTriangle]
        /\ \A t \in DOMAIN flow_t \ KeptSources :
               \A i \in 1 .. Len(riverPaths) : riverPaths[i].flow >= flow_t[t]

\* More than 100 sources qualified, a path was dropped that was pushed
\* before a path with a larger flow that was kept, and the paths kept are
\* not all of one flow.
C16_Witness ==
    /\ RiversRetained
    /\ Cardinality(DOMAIN flow_t) > 100
    /\ \E t \in DOMAIN flow_t \ KeptSources :
           \E i \in 1 .. Len(riverPaths) :
               /\ riverPaths[i].flow > flow_t[t]
               /\ riverPaths[i].sourceTriangle > t
    /\ riverPaths[1].flow > riverPaths[Len(riverPaths)].flow

\* The call has a temperature array: generateTemperature has returned.
HasTemperature == pc \in {"wind", "moisture"} \/ HasClimate

\* C17: no stage of generateMap modifies an array an earlier stage produced:
\* from the step after the one that made it until the call returns,
\* elevation_t, temperature_t, windOrder, moisture_t, rainfall_t,
\* downslope_t, flow_t, the river paths and biomes_t keep their values.
C17_StageArraysKept ==
    [][pc # "return" =>
          /\ HasElevation => elevation_t' = elevation_t
          /\ HasTemperature => temperature_t' = temperature_t
          /\ HasClimate => /\ windOrder' = windOrder
                           /\ moisture_t' = moisture_t
                           /\ rainfall_t' = rainfall_t
          /\ HasDownslope => downslope_t' = downslope_t
          /\ HasRivers => flow_t' = flow_t /\ riverPaths' = riverPaths
          /\ HasBiomes => biomes_t' = biomes_t]_vars

\* The last stage has run on a terrain with a river, where the flow is
\* not the rainfall, and every array is still what its stage made of its
\* inputs.
C17_Witness ==
    /\ pc = "return"
    /\ riverPaths # <<>>
    /\ flow_t # rainfall_t
    /\ elevation_t = generateElevation(mesh, noise, config)
    /\ temperature_t = generateTemperature(mesh, elevation_t, noise, config)
    /\ rainfall_t = calculateMoisture(mesh, elevation_t, windOrder, noise,
                                      config).rainfall_t
    /\ downslope_t = calculateDownslope(mesh, elevation_t)
    /\ riverPaths = calculateFlowAccumulation(mesh, elevation_t, rainfall_t,
                                              downslope_t, config).riverPaths
    /\ biomes_t = assignBiomes(mesh, elevation_t, moisture_t, temperature_t,
                               config.seaLevel)

\* C18: every boundary triangle has elevation 0 in the array
\* generateElevation returns, the final normalization included.
C18_BoundaryZero ==
    HasElevation =>
        \A t \in Triangles : mesh.is_boundary_t[t] = 1 => elevation_t[t] = 0

(***************************************************************************)
(* calculateMountainDistance (terrain.ts)                                  *)
(***************************************************************************)

\* Math.sqrt(dx * dx + dy * dy) between the centers of triangles a and b,
\* to two decimals.
edgeLength(m, a, b) ==
    LET dx == m.centers[b].x - m.centers[a].x
        dy == m.centers[b].y - m.centers[a].y
    IN  Isqrt((dx * dx + dy * dy) * 10000) * (ONE \div 100)

\* edgeLength * (1 + noise), with noise = (Math.random() - 0.5) *
\* jaggedness * 0.2 and r the value Math.random() returned.
distWithNoise(m, cfg, a, b, r) ==
    Mul(edgeLength(m, a, b),
        ONE + Mul(Mul(r - Frac(1, 2), cfg.jaggedness), Frac(2, 10)))

\* After how many calls the values of Math.random() repeat.
DrawPeriod == 3

RECURSIVE pushPeaks(_, _, _, _)
\* for (const t of mountainTriangles): distance 0 and a place in the queue
\* for every peak, in the order of the triangle ids.
pushPeaks(m, peaks, t, s) ==
    IF t = m.numTriangles THEN s
    ELSE IF t \in peaks
    THEN pushPeaks(m, peaks, t + 1,
                   [s EXCEPT !.distances[t] = 0,
                             !.queue = QueuePush(s.queue, t, 0)])
    ELSE pushPeaks(m, peaks, t + 1, s)

RECURSIVE relaxNeighbors(_, _, _, _, _, _)
\* The loop over the neighbors of currentT, from slot j on: a neighbor not
\* yet visited is given the distance over currentT when that is shorter.
\* s.calls counts the calls of Math.random().
relaxNeighbors(m, cfg, draws, currentT, j, s) ==
    IF j = 3 THEN s
    ELSE LET neighbor == m.neighbors[currentT][j]
             newDist  == s.distances[currentT]
                         + distWithNoise(m, cfg, currentT, neighbor,
                                         draws[s.calls % Size(draws)])
         IN  IF neighbor = -1 \/ neighbor \in s.visited
             THEN relaxNeighbors(m, cfg, draws, currentT, j + 1, s)
             ELSE IF newDist < s.distances[neighbor]
             THEN relaxNeighbors(m, cfg, draws, currentT, j + 1,
                      [s EXCEPT !.distances[neighbor] = newDist,
                                !.queue = QueuePush(s.queue, neighbor, newDist),
                                !.calls = s.calls + 1])
             ELSE relaxNeighbors(m, cfg, draws, currentT, j + 1,
                                 [s EXCEPT !.calls = s.calls + 1])

RECURSIVE searchDistances(_, _, _, _)
\* while (queue.length > 0): the distances when the queue has run empty.
searchDistances(m, cfg, draws, s) ==
    IF s.queue.length = 0 THEN s.distances
    ELSE LET currentT == QueueTop(s.queue)
             popped   == [s EXCEPT !.queue = QueuePop(s.queue)]
         IN  IF currentT \in s.visited
             THEN searchDistances(m, cfg, draws, popped)
             ELSE searchDistances(m, cfg, draws,
                      relaxNeighbors(m, cfg, draws, currentT, 0,
                          [popped EXCEPT !.visited = @ \cup {currentT}]))

\* The end of calculateMountainDistance: when the largest finite distance
\* is positive, the finite distances are divided by it and the others
\* become 1.0.
normalizeDistances(distances) ==
    LET finite  == {t \in DOMAIN distances : distances[t] < Infinity}
        maxDist == SetMax({0} \cup {distances[t] : t \in finite})
    IN  IF maxDist > 0
        THEN [t \in DOMAIN distances |->
                 IF t \in finite THEN (distances[t] * ONE) \div maxDist
                 ELSE ONE]
        ELSE distances

\* calculateMountainDistance, for the peaks the seeded noise selects and
\* the values Math.random() returns.
calculateMountainDistance(m, cfg, peaks, draws) ==
    LET start == pushPeaks(m, peaks, 0,
                     [distances |-> [t \in Idx(m.numTriangles) |-> Infinity],
                      visited |-> {}, queue |-> EmptyQueue, calls |-> 0])
    IN  [distances |-> normalizeDistances(searchDistances(m, cfg, draws,
                                                          start)),
         peaks |-> peaks]

\* The sets of peaks the selection loop can come to: an interior triangle
\* is a peak when its noise value is above 0.7 and
\* rng() < config.mountainFrequency * 0.1.
PeakSets(m, cfg) ==
    IF Mul(cfg.mountainFrequency, Frac(1, 10)) <= 0 THEN {{}}
    ELSE SUBSET {t \in Idx(m.numTriangles) : m.is_boundary_t[t] = 0}

\* The mountain frequencies and the jaggedness of the model's calls.
MountainConfigs(g) ==
    {[DefaultConfig EXCEPT !.width = g.width, !.height = g.height,
                           !.mountainFrequency = f, !.jaggedness = j] :
        f \in {0, Frac(3, 10)}, j \in {0, Frac(6, 10)}}

InitMountain ==
    \E g \in Triangulations :
        /\ pc = "mesh"
        /\ flatPoints = g.points
        /\ delaunay = [triangles |-> g.triangles, halfedges |-> g.halfedges]
        /\ mesh = NoMesh
        /\ config \in MountainConfigs(g)
        /\ noise = None
        /\ returned = <<>> /\ loading = FALSE /\ timeouts = <<>>
        /\ StagesUnset

\* generateMap, step 2: const { distances, peaks } =
\* calculateMountainDistance(mesh, config).
CalculateMountainDistance ==
    /\ pc = "terrain"
    /\ mountainDistance = None
    /\ \E peaks \in PeakSets(mesh, config) :
           \E draws \in [Idx(DrawPeriod) -> RandomDraws] :
               mountainDistance' = calculateMountainDistance(mesh, config,
                                                             peaks, draws)
    /\ pc' = "continent"
    /\ UNCHANGED <<meshVars, inputVars, callVars, elevation_t, climateVars,
                   hydroVars, outputVars>>

NextMountain == CreateMesh \/ CalculateMountainDistance

SpecMountain == InitMountain /\ [][NextMountain]_vars

HasMountainDistance == pc = "continent"

RECURSIVE Reachable(_, _)
\* The triangles reached from the set S over neighbor links.
Reachable(m, S) ==
    LET more == S \cup UNION {NeighborSet(m, t) : t \in S}
    IN  IF more = S THEN S ELSE Reachable(m, more)

\* C19: in the distances calculateMountainDistance returns every value lies
\* in [0,1], and every triangle that no selected peak reaches over neighbor
\* links has the distance 1.0; with no peak selected that is every triangle.
C19_DistancesNormalized ==
    HasMountainDistance =>
        \A t \in Triangles :
            /\ 0 <= mountainDistance.distances[t]
            /\ mountainDistance.distances[t] <= ONE
            /\ t \notin Reachable(mesh, mountainDistance.peaks)
                   => mountainDistance.distances[t] = ONE

\* What the first pass of calculateDownslope gives on the elevation of
\* the call.
FirstPass == firstPass(mesh, elevation_t)

RECURSIVE FirstPassDescends(_, _)
\* Following the first-pass links from t for up to k steps ends at none,
\* every step going strictly down.
FirstPassDescends(t, k) ==
    \/ FirstPass[t] = -1
    \/ /\ k > 0
       /\ elevation_t[FirstPass[t]] < elevation_t[t]
       /\ FirstPassDescends(FirstPass[t], k - 1)

\* C20: after the first pass of calculateDownslope, downslope[t] is none
\* exactly when no neighbor of t is strictly lower than t; otherwise it is a
\* neighbor of t that is strictly lower than t and as low as the lowest
\* neighbor of t.  Following the links goes strictly down and ends at none
\* within as many steps as the mesh has triangles, so it meets no cycle.
C20_FirstPassSteepest ==
    HasDownslope =>
        \A t \in Triangles :
            /\ FirstPass[t] = -1
                   <=> \A u \in NeighborSet(mesh, t) :
                           elevation_t[u] >= elevation_t[t]
            /\ FirstPass[t] # -1 =>
                   /\ FirstPass[t] \in NeighborSet(mesh, t)
                   /\ elevation_t[FirstPass[t]] < elevation_t[t]
                   /\ \A u \in NeighborSet(mesh, t) :
                          elevation_t[FirstPass[t]] <= elevation_t[u]
            /\ FirstPassDescends(t, mesh.numTriangles - 1)

\* The first pass ran on a terrain with a triangle that has no lower
\* neighbor, a triangle with two lower neighbors of different elevation, a
\* triangle whose lowest neighbors tie, and a chain of two links.
C20_Witness ==
    /\ HasDownslope
    /\ \E t \in Triangles : FirstPass[t] = -1 /\ mesh.is_boundary_t[t] = 0
    /\ \E t \in Triangles :
          \E u, v \in NeighborSet(mesh, t) :
              /\ elevation_t[u] < elevation_t[v]
              /\ elevation_t[v] < elevation_t[t]
    /\ \E t \in Triangles :
          \E u \in NeighborSet(mesh, t) \ {FirstPass[t]} :
              /\ FirstPass[t] # -1
              /\ elevation_t[u] = elevation_t[FirstPass[t]]
    /\ \E t \in Triangles :
          FirstPass[t] # -1 /\ FirstPass[FirstPass[t]] # -1

\* The downslope of u was set when the search from sink t ran: by the
\* first pass, or by the search from a sink with a smaller id.
SetBefore(u, t) ==
    \/ FirstPass[u] # -1
    \/ u < t /\ downslope_t[u] # -1

\* C21: after the sink resolution of calculateDownslope, a sink from which
\* neighbor links reach a triangle whose downslope was set has its own
\* downslope set, to a triangle whose downslope was set at that moment; a
\* sink keeps downslope none only if neighbor links reach no such triangle.
C21_SinksResolved ==
    HasDownslope =>
        \A t \in Triangles :
            FirstPass[t] = -1 =>
                /\ (\E u \in Reachable(mesh, {t}) : SetBefore(u, t))
                       <=> downslope_t[t] # -1
                /\ downslope_t[t] # -1 =>
                       /\ downslope_t[t] \in Reachable(mesh, {t})
                       /\ SetBefore(downslope_t[t], t)

\* The resolution sent a sink to a triangle that is not its neighbor, and
\* sent another sink to a sink resolved before it.
C21_Witness ==
    /\ HasDownslope
    /\ \E t \in Triangles :
          /\ FirstPass[t] = -1
          /\ downslope_t[t] # -1
          /\ downslope_t[t] \notin NeighborSet(mesh, t)
    /\ \E t \in Triangles :
          /\ FirstPass[t] = -1
          /\ downslope_t[t] # -1
          /\ FirstPass[downslope_t[t]] = -1

\* The resolution ran on a terrain where no triangle has a lower neighbor,
\* and left every downslope at none.
C21_WitnessFlat ==
    /\ HasDownslope
    /\ \A t \in Triangles : FirstPass[t] = -1 /\ downslope_t[t] = -1

RECURSIVE SumOver(_, _)
\* The sum of f[u] over the triangles u of the set S.
SumOver(f, S) ==
    IF S = {} THEN 0
    ELSE LET u == CHOOSE v \in S : TRUE
         IN  f[u] + SumOver(f, S \ {u})

\* The triangles that pass their flow on to t: the triangles off the
\* boundary whose downslope is t.
Contributors(t) ==
    {u \in Triangles : mesh.is_boundary_t[u] = 0 /\ downslope_t[u] = t}

\* C22: after the flow accumulation, flow_t[t] of every triangle t is its
\* initial flow plus the sum of the final flow_t[u] of the triangles u off
\* the boundary with downslope_t[u] = t.
C22_FlowConserved ==
    HasRivers =>
        \A t \in Triangles :
            flow_t[t] = initialFlow(elevation_t, rainfall_t, config, t)
                        + SumOver(flow_t, Contributors(t))

\* The position of triangle t in windOrder.
WindPosition(t) == CHOOSE k \in DOMAIN windOrder : windOrder[k] = t

\* The projection of the center of triangle t on the wind vector.
WindProjection(t) ==
    mesh.centers[t].x * Cos(config.windAngleDeg)
    + mesh.centers[t].y * Sin(config.windAngleDeg)

\* calculateMoisture runs the loop body for triangle t: t is off the
\* boundary and not in deep water.
MoistureProcessed(t) ==
    /\ mesh.is_boundary_t[t] = 0
    /\ elevation_t[t] >= config.seaLevel - Frac(1, 10)

\* C23: calculateWindOrder returns a permutation of the triangle ids in the
\* order of non-decreasing projection on the wind vector, and every neighbor
\* u that calculateMoisture treats as upwind of a triangle t it processes
\* comes before t in that order.
C23_UpwindComesFirst ==
    HasClimate =>
        /\ DOMAIN windOrder = Triangles
        /\ {windOrder[k] : k \in DOMAIN windOrder} = Triangles
        /\ \A k \in DOMAIN windOrder :
               k > 0 => WindProjection(windOrder[k - 1])
                            <= WindProjection(windOrder[k])
        /\ \A t \in Triangles :
               MoistureProcessed(t) =>
                   \A u \in NeighborSet(mesh, t) :
                       isUpwind(mesh, t, u, noise[t].windturb, config)
                           => WindPosition(u) < WindPosition(t)

(***************************************************************************)
(* SpecWind: generateMap from createMesh to calculateMoisture on the       *)
(* triangulations of the library, with the wind turbulence noise varying   *)
(* from triangle to triangle.                                              *)
(***************************************************************************)

\* The values of turbulenceNoise, which lie in [-1, 1].
WindTurbulence == {-Frac(9, 10), 0, Frac(9, 10)}

\* The noise fields of SpecWind on mesh m: the triangles with an even id
\* take one sample and those with an odd id another, and each interior
\* triangle has a turbulence of its own.
WindNoise(m) ==
    LET interior == {t \in Idx(m.numTriangles) : m.is_boundary_t[t] = 0}
    IN  {[t \in Idx(m.numTriangles) |->
             IF t \notin interior THEN BoundarySample
             ELSE [(IF t % 2 = 0 THEN even ELSE odd)
                       EXCEPT !.windturb = w[t]]] :
         even \in Samples, odd \in Samples,
         w \in [interior -> WindTurbulence]}

InitWind ==
    \E g \in Triangulations :
        /\ pc = "mesh"
        /\ flatPoints = g.points
        /\ delaunay = [triangles |-> g.triangles, halfedges |-> g.halfedges]
        /\ mesh = NoMesh
        /\ config = [DefaultConfig EXCEPT !.width = g.width,
                                          !.height = g.height,
                                          !.seaLevel = Frac(1, 10)]
        /\ noise \in WindNoise(MeshOf(g))
        /\ returned = <<>> /\ loading = FALSE /\ timeouts = <<>>
        /\ StagesUnset

\* generateMap after calculateMoisture: the steps that follow are not
\* part of SpecWind.
NextWind ==
    \/ CreateMesh
    \/ GenerateElevation
    \/ GenerateTemperature
    \/ CalculateWindOrder
    \/ CalculateMoisture

SpecWind == InitWind /\ [][NextWind]_vars

\* moisture_t[t] as calculateMoisture initializes it.
InitialMoisture(t) ==
    IF elevation_t[t] < config.seaLevel THEN ONE ELSE Frac(1, 10)

\* C24: calculateMoisture leaves every boundary triangle and every triangle
\* in deep water (elevation < seaLevel - 0.1) as initialized: its moisture
\* is 1.0 below the sea and 0.1 otherwise, and its rainfall is 0.  Every
\* triangle below the sea, skipped or not, ends with moisture 1.0.
C24_SkippedUntouched ==
    HasClimate =>
        \A t \in Triangles :
            /\ ~MoistureProcessed(t) =>
                   /\ moisture_t[t] = InitialMoisture(t)
                   /\ rainfall_t[t] = 0
            /\ elevation_t[t] < config.seaLevel => moisture_t[t] = ONE

\* calculateMoisture ran on a terrain with a boundary triangle above the
\* sea next to a lower triangle upwind of it, an interior triangle in deep
\* water, and rain somewhere.
C24_Witness ==
    /\ HasClimate
    /\ \E t \in Triangles :
          /\ mesh.is_boundary_t[t] = 1
          /\ elevation_t[t] >= config.seaLevel
          /\ \E u \in NeighborSet(mesh, t) :
                 /\ isUpwind(mesh, t, u, noise[t].windturb, config)
                 /\ elevation_t[u] < elevation_t[t]
    /\ \E t \in Triangles :
          mesh.is_boundary_t[t] = 0
          /\ elevation_t[t] < config.seaLevel - Frac(1, 10)
    /\ \E t \in Triangles : rainfall_t[t] > 0

(***************************************************************************)
(* SpecTrace: calculateFlowAccumulation on the 7-triangle mesh for every   *)
(* downslope_t array over the interior triangles, cycles included.         *)
(***************************************************************************)

\* The downslope arrays of SpecTrace on mesh m: any value from none to the
\* last triangle id at the interior triangles and at boundary triangle 0,
\* none at the other boundary triangles.
AnyDownslope(m) ==
    LET free == {t \in Idx(m.numTriangles) : m.is_boundary_t[t] = 0 \/ t = 0}
    IN  {[t \in Idx(m.numTriangles) |-> IF t \in free THEN f[t] ELSE -1] :
         f \in [free -> -1 .. m.numTriangles - 1]}

\* The elevations of SpecTrace: every triangle at 1.0, or triangle 6 below
\* the sea.
TraceElevations(m) ==
    {[t \in Idx(m.numTriangles) |-> IF t = 6 THEN low ELSE ONE] :
        low \in {0, ONE}}

InitTrace ==
    /\ pc = "flow"
    /\ flatPoints = Mesh7.points
    /\ delaunay = [triangles |-> Mesh7.triangles, halfedges |-> Mesh7.halfedges]
    /\ mesh = MeshOf(Mesh7)
    /\ config = [DefaultConfig EXCEPT !.width = Mesh7.width,
                                      !.height = Mesh7.height]
    /\ noise = None
    /\ mountainDistance = None
    /\ elevation_t \in TraceElevations(MeshOf(Mesh7))
    /\ temperature_t = None
    /\ windOrder = None
    /\ moisture_t = None
    /\ rainfall_t = [t \in Idx(MeshOf(Mesh7).numTriangles) |-> ONE]
    /\ downslope_t \in AnyDownslope(MeshOf(Mesh7))
    /\ flow_t = None
    /\ riverPaths = None
    /\ biomes_t = None
    /\ mapData = None
    /\ returned = <<>> /\ loading = FALSE /\ timeouts = <<>>

NextTrace == CalculateFlowAccumulation

SpecTrace == InitTrace /\ [][NextTrace]_vars

\* The trace of the river loop from source t.
TraceOf(t) == tracePath(mesh, elevation_t, downslope_t, config, <<t>>)

\* Where following downslope_t from t stands after k steps: -2 once a step
\* has met one of the tests that end a river.
RECURSIVE Follow(_, _)
Follow(t, k) ==
    IF k = 0 THEN t
    ELSE LET p == Follow(t, k - 1)
         IN  IF p = -2 \/ riverEnds(mesh, elevation_t, config, downslope_t[p])
             THEN -2 ELSE downslope_t[p]

\* Following downslope_t from t never meets an end: after as many steps
\* as the mesh has triangles it has come to a triangle a second time.
RunsIntoCycle(t) == Follow(t, mesh.numTriangles) # -2

\* C25: for any downslope_t, cycles included, the trace from every river
\* source ends after at most as many triangles as the mesh has, none of
\* them twice; the trace of a source whose chain comes back to a triangle
\* of its path is marked invalid and gives no river path, and
\* calculateFlowAccumulation still returns its result.
C25_TraceEnds ==
    HasRivers =>
        /\ DOMAIN flow_t = Triangles
        /\ \A t \in Triangles :
               isRiverSource(elevation_t, flow_t, config, t) =>
                   /\ Len(TraceOf(t).triangles) <= mesh.numTriangles
                   /\ \A i, j \in 1 .. Len(TraceOf(t).triangles) :
                          TraceOf(t).triangles[i] = TraceOf(t).triangles[j]
                              => i = j
                   /\ TraceOf(t).isValid <=> ~RunsIntoCycle(t)
                   /\ RunsIntoCycle(t) =>
                          \A r \in 1 .. Len(riverPaths) :
                              riverPaths[r].sourceTriangle # t

\* The rivers were traced on a downslope_t with a cycle that a source
\* outside the cycle runs into after more than 3 triangles, while the
\* trace of another source ends without a cycle.
C25_Witness ==
    /\ HasRivers
    /\ \E t \in Triangles :
          /\ isRiverSource(elevation_t, flow_t, config, t)
          /\ RunsIntoCycle(t)
          /\ Len(TraceOf(t).triangles) > 3
          /\ downslope_t[TraceOf(t).triangles[Len(TraceOf(t).triangles)]] # t
    /\ \E u \in Triangles :
          /\ isRiverSource(elevation_t, flow_t, config, u)
          /\ TraceOf(u).isValid

\* C26: assignBiomes gives a land triangle off the boundary the biome BEACH
\* exactly when it lies less than 0.05 above the sea and has a neighbor
\* below the sea, whatever lowland biome its temperature and moisture
\* select.
C26_BeachIffCoastal ==
    HasBiomes =>
        \A t \in Triangles :
            (mesh.is_boundary_t[t] = 0 /\ elevation_t[t] >= config.seaLevel) =>
                (biomes_t[t] = BEACH
                    <=> /\ elevation_t[t] - config.seaLevel < Frac(5, 100)
                        /\ \E u \in NeighborSet(mesh, t) :
                               elevation_t[u] < config.seaLevel)

\* Biomes were assigned to a beach, where the lowland rules select another
\* biome, and to a low land triangle with no neighbor below the sea.
C26_Witness ==
    /\ HasBiomes
    /\ \E t \in Triangles :
          /\ biomes_t[t] = BEACH
          /\ lowlandBiome(temperature_t[t], moisture_t[t]) # BEACH
    /\ \E t \in Triangles :
          /\ mesh.is_boundary_t[t] = 0
          /\ elevation_t[t] >= config.seaLevel
          /\ elevation_t[t] - config.seaLevel < Frac(5, 100)
          /\ \A u \in NeighborSet(mesh, t) : elevation_t[u] >= config.seaLevel

(***************************************************************************)
(* SpecPoints: generatePoints on small maps for point densities up to 30,  *)
(* where the cell size goes down to 1 pixel.  The coordinates are          *)
(* fixed-point values here, so that half a cell is exact.                  *)
(***************************************************************************)

\* const cellSize = Math.sqrt((width * height) /
\* ((width * height * biomeDensity) / 30)), as a fixed-point value.
fineCellSize(cfg) ==
    Isqrt((30 * cfg.biomeDensity.d * ONE * ONE) \div cfg.biomeDensity.n)

\* generatePoints with fixed-point coordinates: the boundary points at a
\* spacing of cellSize / 2, then the jittered and clamped grid positions.
generateFinePoints(cfg, draws) ==
    LET cell     == fineCellSize(cfg)
        half     == cell \div 2
        width    == cfg.width * ONE
        height   == cfg.height * ONE
        grid     == interiorGrid(width, height, cell)
    IN  createBoundaryPoints(width, height, half)
        \o [k \in 1 .. Len(grid) |->
              [x |-> Clamp(half, width - half,
                           grid[k].x + jitterOffset(draws[1], cell,
                                                    cfg.pointDeviation)),
               y |-> Clamp(half, height - half,
                           grid[k].y + jitterOffset(draws[2], cell,
                                                    cfg.pointDeviation))]]

\* The largest density of SpecPoints.
MaxDensity == 30

\* The point densities with a cell size of 4, 3, 2 and 1 pixels: 30 / 16,
\* 30 / 9, 30 / 4 and 30.
Densities ==
    {[n |-> 15, d |-> 8], [n |-> 10, d |-> 3], [n |-> 15, d |-> 2],
     [n |-> MaxDensity, d |-> 1]}

PointConfigs ==
    {[DefaultConfig EXCEPT !.width = w, !.height = h, !.biomeDensity = b,
                           !.pointDeviation = p] :
        w \in {6, 8}, h \in {4, 6}, b \in Densities,
        p \in {0, Frac(2, 10), Frac(45, 100)}}

InitPoints ==
    /\ config \in PointConfigs
    /\ returned = <<>> /\ loading = FALSE /\ timeouts = <<>>
    /\ CallStarts

\* generateMap, step 1: const pointsData = generatePoints(config), with the
\* same two values of Math.random() at every grid position.
GenerateFinePoints ==
    /\ pc = "points"
    /\ \E draws \in RandomDraws \X RandomDraws :
           flatPoints' = flattenPoints(generateFinePoints(config, draws))
    /\ pc' = "delaunay"
    /\ UNCHANGED <<delaunay, mesh, inputVars, callVars, terrainVars,
                   climateVars, hydroVars, outputVars>>

NextPoints == GenerateFinePoints

SpecPoints == InitPoints /\ [][NextPoints]_vars

PointsGenerated == pc = "delaunay"

\* How many points a map of width x height pixels has at a cell size of
\* 2 pixels: the boundary points 1 pixel apart and the grid positions.
PointBound(width, height) ==
    2 * (width + height) + ((width \div 2) + 1) * ((height \div 2) + 1)

\* C27: generatePoints works with a cell size of at least 2 pixels, also
\* when biomeDensity gives a smaller one: the boundary points lie at least
\* 1 pixel (half a cell) apart, and there are no more points than a cell
\* size of 2 gives.
C27_CellSizeClamped ==
    PointsGenerated =>
        /\ flatPoints[2] - flatPoints[0] >= ONE
        /\ Size(flatPoints) \div 2 <= PointBound(config.width, config.height)

(***************************************************************************)
(* SpecRNG: hashSeed and the generator of createRNG.  A JavaScript number  *)
(* that holds an integer is a pair of a high part and a low part of 16     *)
(* bits, with the value hi * 2^16 + lo: the high part of a 32-bit integer  *)
(* lies in -2^15 .. 2^15 - 1, and a wider number has a high part outside.  *)
(***************************************************************************)

HalfWord == 65536

\* The number hi * 2^16 + lo, with the low part brought into 0 .. 2^16 - 1.
Num(hi, lo) == [hi |-> hi + (lo \div HalfWord), lo |-> lo % HalfWord]

NumAdd(a, b) == Num(a.hi + b.hi, a.lo + b.lo)

NumSub(a, b) == Num(a.hi - b.hi, a.lo - b.lo)

\* hash |= 0 without the wrap: the number stays as wide as it is.
MutToInt32(a) == a

\* ToInt32, the conversion of every bitwise operator (hash |= 0): the
\* number modulo 2^32, as a signed value.
ToInt32(a) ==
    [hi |-> ((a.hi + (HalfWord \div 2)) % HalfWord) - (HalfWord \div 2),
     lo |-> a.lo]

\* ToUint32 (state >>> 0): the number modulo 2^32, as an unsigned value.
ToUint32(a) == [hi |-> a.hi % HalfWord, lo |-> a.lo]

RECURSIVE Pow2(_)
Pow2(k) == IF k = 0 THEN 1 ELSE 2 * Pow2(k - 1)

\* a << k, for k below 16.
ShiftLeft(a, k) ==
    LET w == ToInt32(a)
    IN  ToInt32(Num(w.hi * Pow2(k), w.lo * Pow2(k)))

\* a >>> k, for k from 16 on.
UnsignedShiftRight(a, k) == Num(0, ToUint32(a).hi \div Pow2(k - 16))

\* The exclusive or of two values of 16 bits.
RECURSIVE BitXor(_, _, _)
BitXor(x, y, bits) ==
    IF bits = 0 THEN 0
    ELSE ((x + y) % 2) + 2 * BitXor(x \div 2, y \div 2, bits - 1)

\* a ^ b.
Xor(a, b) ==
    LET u == ToUint32(a)
        v == ToUint32(b)
    IN  ToInt32(Num(BitXor(u.hi, v.hi, 16), BitXor(u.lo, v.lo, 16)))

\* hashSeed: hash = (hash << 5) - hash + seed.charCodeAt(i); hash |= 0, for
\* the characters of seed from i on.
RECURSIVE hashFrom(_, _, _)
hashFrom(seed, i, hash) ==
    IF i > Len(seed) THEN hash
    ELSE hashFrom(seed, i + 1,
                  ToInt32(NumAdd(NumSub(ShiftLeft(hash, 5), hash),
                                 Num(0, seed[i]))))

hashSeed(seed) == hashFrom(seed, 1, Num(0, 0))

\* The three steps of the generator: state ^= state << 13; state ^= state
\* >>> 17; state ^= state << 5.
xorshift(state) ==
    LET a == Xor(state, ShiftLeft(state, 13))
        b == Xor(a, UnsignedShiftRight(a, 17))
    IN  Xor(b, ShiftLeft(b, 5))

\* The divisor of the generator, 2147483647.
RandomDivisor == 2147483647

\* (state >>> 0) % 2147483647.  The unsigned value is bit 31 times 2^31
\* plus the lower 31 bits, and 2^31 leaves the remainder 1.
randomRemainder(state) ==
    LET u     == ToUint32(state)
        low31 == (u.hi % (HalfWord \div 2)) * HalfWord + u.lo
    IN  ((low31 % RandomDivisor) + (u.hi \div (HalfWord \div 2)))
            % RandomDivisor

\* The value the generator returns, a fraction.
randomValue(state) == [n |-> randomRemainder(state), d |-> RandomDivisor]

\* The longest seed and the most calls of one generator.
MaxSeedLen == 5
MaxDraws == 3

\* charCodeAt of the characters of the seeds: "a", "z" and the largest
\* code unit.
CharCodes == {97, 122, 65535}

Seeds == UNION {[1 .. n -> CharCodes] : n \in 0 .. MaxSeedLen}

InitRNG ==
    /\ \E seed \in Seeds : config = [DefaultConfig EXCEPT !.seed = seed]
    /\ returned = <<>> /\ loading = FALSE /\ timeouts = <<>>
    /\ CallStarts

\* createRNG(seed): let state = hashSeed(seed).
CreateRNG ==
    /\ pc = "points"
    /\ noise' = [hash |-> hashSeed(config.seed),
                 state |-> hashSeed(config.seed)]
    /\ pc' = "random"
    /\ UNCHANGED <<meshVars, config, callVars, terrainVars, climateVars,
                   hydroVars, outputVars>>

\* One call of the function createRNG returns.
Random ==
    /\ pc = "random"
    /\ Len(returned) < MaxDraws
    /\ noise' = [noise EXCEPT !.state = xorshift(noise.state)]
    /\ returned' = Append(returned, randomValue(xorshift(noise.state)))
    /\ UNCHANGED <<loading, timeouts>>
    /\ UNCHANGED <<pc, meshVars, config, terrainVars, climateVars,
                   hydroVars, outputVars>>

NextRNG == CreateRNG \/ Random

SpecRNG == InitRNG /\ [][NextRNG]_vars

HasGenerator == pc = "random"

\* h := 31 * h + charCode modulo 2^32 over the characters of seed from i
\* on, as an unsigned value.
RECURSIVE Accumulate(_, _, _)
Accumulate(seed, i, h) ==
    IF i > Len(seed) THEN h
    ELSE Accumulate(seed, i + 1,
                    ToUint32(Num(31 * h.hi, 31 * h.lo + seed[i])))

InInt32(a) ==
    /\ a.hi \in -(HalfWord \div 2) .. (HalfWord \div 2) - 1
    /\ a.lo \in 0 .. HalfWord - 1

\* C28: the hash of the seed is a signed 32-bit value, equal modulo 2^32 to
\* the accumulation h := 31 * h + charCode, and every value the generator
\* has returned is at least 0 and strictly below 1.
C28_HashAndRange ==
    HasGenerator =>
        /\ InInt32(noise.hash)
        /\ ToUint32(noise.hash) = Accumulate(config.seed, 1, Num(0, 0))
        /\ \A k \in 1 .. Len(returned) :
               /\ 0 <= returned[k].n
               /\ returned[k].n < returned[k].d

\* A seed whose accumulation has wrapped to a negative hash, and a
\* generator that returned all its values, one above and one below 1/2.
C28_Witness ==
    /\ HasGenerator
    /\ Len(config.seed) = MaxSeedLen
    /\ noise.hash.hi < 0
    /\ Len(returned) = MaxDraws
    /\ \E j, k \in 1 .. Len(returned) :
           /\ 2 * (returned[j].n \div 4) > returned[j].d \div 4
           /\ 2 * (returned[k].n \div 4) < returned[k].d \div 4

\* The four grids of mapData at pixel (x, y) hold the values of triangle t.
PixelOfTriangle(x, y, t) ==
    /\ mapData.elevation[y][x] = elevation_t[t]
    /\ mapData.moisture[y][x] = moisture_t[t]
    /\ mapData.temperature[y][x] = temperature_t[t]
    /\ mapData.biomes[y][x] = biomes_t[t]

ControlValues ==
    [seed     |-> {1, 2},
     seaLevel |-> {Frac(3, 10), Frac(4, 10), Frac(5, 10)},
     rivers   |-> {Frac(5, 10), ONE}]

UIConfigs ==
    {[DefaultConfig EXCEPT !.seed = s, !.seaLevel = l, !.rivers = r] :
        s \in ControlValues.seed, l \in ControlValues.seaLevel,
        r \in ControlValues.rivers}

\* What generateMap(cfg) returns.
GeneratedMap(cfg) == [width |-> cfg.width, height |-> cfg.height, of |-> cfg]

\* The state of the first render: useState(defaultMapConfig), useState(null),
\* useState(false), and the effects not yet run.
InitUI ==
    /\ pc = "mount"
    /\ config = DefaultConfig
    /\ returned = <<>> /\ loading = FALSE /\ timeouts = <<>>
    /\ flatPoints = None
    /\ delaunay = None
    /\ mesh = NoMesh
    /\ noise = None
    /\ StagesUnset

\* generateNewMap: setLoading(true); setTimeout(() => { ... }, 10), the
\* callback holding the mapConfig of the render that made it.
generateNewMap ==
    /\ loading' = TRUE
    /\ timeouts' = Append(timeouts, config)

\* useEffect(() => { if (!loading) generateNewMap(); }, []): once, after the
\* first render.
MountEffect ==
    /\ pc = "mount"
    /\ IF ~loading THEN generateNewMap ELSE UNCHANGED <<loading, timeouts>>
    /\ pc' = "idle"
    /\ UNCHANGED <<meshVars, inputVars, returned, terrainVars, climateVars,
                   hydroVars, outputVars>>

\* handleInputChange: setMapConfig({ ...mapConfig, [name]: value }).
HandleInputChange ==
    /\ pc = "idle"
    /\ \E name \in DOMAIN ControlValues : \E value \in ControlValues[name] :
           /\ config[name] # value
           /\ config' = [config EXCEPT ![name] = value]
    /\ UNCHANGED <<pc, meshVars, noise, callVars, terrainVars, climateVars,
                   hydroVars, outputVars>>

\* A click on the button "Generate New Map": onClick={generateNewMap},
\* disabled={loading}.
ClickGenerate ==
    /\ pc = "idle"
    /\ ~loading
    /\ generateNewMap
    /\ UNCHANGED <<pc, meshVars, inputVars, returned, terrainVars,
                   climateVars, hydroVars, outputVars>>

\* The callback of setTimeout: try { setMapData(generateMap(mapConfig)) }
\* catch (error) { console.error(...) } finally { setLoading(false) }.
Timeout ==
    /\ timeouts # <<>>
    /\ LET cfg == Head(timeouts)
       IN  \/ /\ mapData' = GeneratedMap(cfg)
              /\ returned' = <<[config |-> cfg, mapData |-> GeneratedMap(cfg)]>>
           \/ /\ mapData' = mapData
              /\ returned' = <<[config |-> cfg, mapData |-> None]>>
    /\ loading' = FALSE
    /\ timeouts' = Tail(timeouts)
    /\ UNCHANGED <<pc, meshVars, inputVars, terrainVars, climateVars,
                   hydroVars, biomes_t>>

NextUI == MountEffect \/ HandleInputChange \/ ClickGenerate \/ Timeout

\* React runs the effect after the first render and the browser runs every
\* timer; nothing makes the user act.
SpecUI ==
    InitUI /\ [][NextUI]_vars /\ WF_vars(MountEffect) /\ WF_vars(Timeout)

\* The last call of generateMap the component made had the configuration c.
GeneratedFrom(c) == returned # <<>> /\ returned[1].config = c

\* C30: whenever mapConfig has become c, generateMap is eventually called
\* with c, and whenever loading is true it eventually is false again,
\* whether generateMap returned or threw.
C30_ChangeRegenerates ==
    /\ \A c \in UIConfigs : (config = c) ~> GeneratedFrom(c)
    /\ loading ~> ~loading

(***************************************************************************)
(* SpecUIEffect: the other copy of the component in the repository, whose  *)
(* effect "Generate a new map whenever the configuration changes" has a    *)
(* dependency list.                                                        *)
(***************************************************************************)

\* The dependency list of the effect.
EffectDeps ==
    {"seed", "seaLevel", "mountainFrequency", "biomeDensity", "windAngleDeg",
     "raininess", "jaggedness", "mountainHeight", "rivers"}

\* The values the controls "seed", "seaLevel" and "width" are set to.
EffectControls ==
    [seed     |-> {1, 2},
     seaLevel |-> {Frac(4, 10), Frac(5, 10)},
     width    |-> {60, 72}]

EffectConfigs ==
    {[DefaultConfig EXCEPT !.seed = s, !.seaLevel = l, !.width = w] :
        s \in EffectControls.seed, l \in EffectControls.seaLevel,
        w \in EffectControls.width}

\* The most callbacks setTimeout holds at a time.
MaxTimeouts == 2

\* The effect, after the first render and after a render that changed one
\* of its dependencies: setLoading(true); setTimeout(() => { ... }, 0).
RunEffect ==
    /\ pc \in {"mount", "effect"}
    /\ generateNewMap
    /\ pc' = "idle"
    /\ UNCHANGED <<meshVars, inputVars, returned, terrainVars, climateVars,
                   hydroVars, outputVars>>

\* handleInputChange, and the render that follows it.
ChangeInput ==
    /\ pc = "idle"
    /\ Len(timeouts) < MaxTimeouts
    /\ \E name \in DOMAIN EffectControls : \E value \in EffectControls[name] :
           /\ config[name] # value
           /\ config' = [config EXCEPT ![name] = value]
           /\ pc' = IF name \in EffectDeps THEN "effect" ELSE "idle"
    /\ UNCHANGED <<meshVars, noise, callVars, terrainVars, climateVars,
                   hydroVars, outputVars>>

\* createEmptyMapData(width, height): the fallback map of the catch block.
createEmptyMapData(width, height) ==
    [width |-> width, height |-> height, of |-> None]

\* The callback of setTimeout: setMapData(generateMap(mapConfig));
\* setLoading(false), or in the catch block setMapData(createEmptyMapData(
\* ...)); setLoading(false).
EffectTimeout ==
    /\ timeouts # <<>>
    /\ LET cfg == Head(timeouts)
       IN  \/ /\ mapData' = GeneratedMap(cfg)
              /\ returned' = <<[config |-> cfg, mapData |-> GeneratedMap(cfg)]>>
           \/ /\ mapData' = createEmptyMapData(cfg.width, cfg.height)
              /\ returned' = <<[config |-> cfg, mapData |-> None]>>
    /\ loading' = FALSE
    /\ timeouts' = Tail(timeouts)
    /\ UNCHANGED <<pc, meshVars, inputVars, terrainVars, climateVars,
                   hydroVars, biomes_t>>

NextUIEffect == RunEffect \/ ChangeInput \/ EffectTimeout

SpecUIEffect ==
    InitUI /\ [][NextUIEffect]_vars /\ WF_vars(RunEffect)
           /\ WF_vars(EffectTimeout)

\* The property of C30 for the copy with the dependency list: a change of
\* "width" is not followed by a call of generateMap.
EffectRegenerates == \A c \in EffectConfigs : (config = c) ~> GeneratedFrom(c)

\* The changes of the fields of the dependency list are followed by a call:
\* the configuration the effect last saw is generated.
EffectRunsForDeps ==
    \A c \in EffectConfigs : (pc = "effect" /\ config = c) ~> GeneratedFrom(c)

====
